---- MODULE Spec2Model ----
(***************************************************************************)
(* Kenton: the conversation store (conversation_manager.py) and the API    *)
(* tool wrappers (tools/api_tool_template.py, tools/weather_api.py,        *)
(* tools/financial_api.py, tools/mcp_api_loader.py) as state machines.     *)
(*                                                                         *)
(* Python values are modelled as follows.  None / an absent optional       *)
(* argument is the empty tuple <<>> and a given one is <<v>>.  A dict is   *)
(* a record (a function on its keys).  A text is a record [id, len]: the   *)
(* first len characters of the text named id, so slicing is observable.    *)
(***************************************************************************)
EXTENDS Integers, Sequences, FiniteSets, TLC

VARIABLES
    \* ---- ConversationManager ------------------------------------------
    use_redis,          \* self.use_redis
    max_history,        \* self.max_history
    ttl_seconds,        \* self.ttl_seconds
    memory_store,       \* self.memory_store: session id -> list of entries
    memory_timestamps,  \* self.memory_timestamps: session id -> last activity
    redis_db,           \* the Redis server: key -> [value, expires_at]
    now,                \* time.time()
    ret,                \* the last event: the ConversationManager call and its outcome
    log,                \* history: entries stored per session since its last clear
    ttl_hit,            \* history: the session was reclaimed by TTL since its last clear
    pre_absent,         \* history: the last call was a clear_session of a session holding nothing
    adds,               \* number of add_entry calls made
    inflight,           \* concurrent add_entry calls: caller -> its position and locals
    manager,            \* the APIManager under construction
    sessions,           \* SessionManager.sessions: session id -> its dict
    cli,                \* the EnhancedCLI object and its last step
    server,             \* fixed_api_server: its globals and the requests in flight
    \* ---- API tools ------------------------------------------------------
    tool,               \* the callable being invoked
    args,               \* its decorator parameters, credential and arguments
    pc,                 \* "idle", "loop" (in with_retry's while), "done"
    retries,            \* with_retry: retries
    last_error,         \* with_retry: last_error
    calls,              \* how each call of the tool's body ended, in order
    requests,           \* the HTTP requests issued, in order
    sleeps,             \* the time.sleep delays, in order
    result              \* [raised, value]: how the invocation ended

store_vars == <<use_redis, max_history, ttl_seconds, memory_store,
                memory_timestamps, redis_db, now, ret, log, ttl_hit, pre_absent,
                adds>>

tool_vars == <<tool, args, pc, retries, last_error, calls, requests, sleeps,
               result>>

agent_vars == <<sessions, cli, server>>

aux_vars == <<inflight, manager, agent_vars>>

vars == <<store_vars, tool_vars, aux_vars>>

\* ---- bounds -----------------------------------------------------------
MaxHistory  == 2
MaxTtlHours == 1
MaxTime     == 2
MaxAdds     == 2
MaxLimit    == 1
MaxRetries  == 2
MaxRetryDelay == 1
MaxSections == 2

SessionIds == {"s1", "s2"}
Queries    == {"Q1", "Q2"}
Responses  == {[id |-> "A1", len |-> 2], [id |-> "A2", len |-> 201]}
Models     == {"gpt-4.1"}

None     == <<>>
Some(v)  == <<v>>
EmptyDict == [k \in {} |-> k]
Metadatas == {None, Some(EmptyDict), Some([tools_called |-> <<"weather_api">>])}

\* the (query, response, model, metadata) argument lists add_entry is called with
Exchanges ==
    {[query |-> "Q1", response |-> [id |-> "A1", len |-> 2],
      model |-> "gpt-4.1", metadata |-> None],
     [query |-> "Q2", response |-> [id |-> "A2", len |-> 201],
      model |-> "gpt-4.1", metadata |-> Some([tools_called |-> <<"weather_api">>])],
     [query |-> "Q2", response |-> [id |-> "A1", len |-> 2],
      model |-> "gpt-4.1", metadata |-> Some(EmptyDict)]}
Limits    == {None} \cup {Some(n) : n \in 0..MaxLimit}

SecondsPerHour == 3600

Min(a, b) == IF a < b THEN a ELSE b
Max(a, b) == IF a > b THEN a ELSE b

\* ---- Python list and dict primitives ------------------------------------

\* seq[i:] for i >= 0
PySliceFrom(seq, i) == SubSeq(seq, Min(i, Len(seq)) + 1, Len(seq))

\* seq[-n:], with Python's rule that -0 is 0 (so seq[-0:] is the whole list)
PySliceLast(seq, n) ==
    IF n > 0 THEN PySliceFrom(seq, Max(Len(seq) - n, 0))
    ELSE PySliceFrom(seq, -n)

\* text[:n]
PyPrefixWhole(text, n) == text

PyPrefix(text, n) == [id |-> text.id, len |-> Min(text.len, n)]

\* d.get(k, default)
DictGet(d, k, default) == IF k \in DOMAIN d THEN d[k] ELSE default

\* d.pop(k, None)
DictPop(d, k) == [x \in DOMAIN d \ {k} |-> d[x]]

\* d[k] = v
DictSet(d, k, v) == [x \in DOMAIN d \cup {k} |-> IF x = k THEN v ELSE d[x]]

\* ---- ConversationEntry --------------------------------------------------

\* ConversationEntry(timestamp=..., query=..., ...)
ConversationEntry(timestamp, query, response, model, metadata) ==
    [cls |-> "ConversationEntry", timestamp |-> timestamp, query |-> query,
     response |-> response, model |-> model, metadata |-> metadata]

\* ConversationEntry.to_dict: asdict(self)
to_dict(entry) ==
    [timestamp |-> entry.timestamp, query |-> entry.query,
     response |-> entry.response, model |-> entry.model,
     metadata |-> entry.metadata]

\* ConversationEntry.from_dict: cls(**data)
from_dict(data) ==
    ConversationEntry(data.timestamp, data.query, data.response, data.model,
                      data.metadata)

\* json.dumps of one entry dict: an object whose members are JSON values
\* (metadata values are lists of strings)
JsonEncodeEntry(d) ==
    [json |-> "object",
     members |->
        [timestamp |-> [json |-> "number", n |-> d.timestamp],
         query     |-> [json |-> "string", s |-> d.query],
         response  |-> [json |-> "string", s |-> d.response],
         model     |-> [json |-> "string", s |-> d.model],
         metadata  |-> [json |-> "object",
                        members |-> [k \in DOMAIN d.metadata |->
                                        [json |-> "array",
                                         items |-> d.metadata[k]]]]]]

\* json.loads of one object of the array: the dict it denotes
JsonDecodeEntryDropsMetadata(j) ==
    [timestamp |-> j.members.timestamp.n,
     query     |-> j.members.query.s,
     response  |-> j.members.response.s,
     model     |-> j.members.model.s,
     metadata  |-> EmptyDict]

JsonDecodeEntry(j) ==
    [timestamp |-> j.members.timestamp.n,
     query     |-> j.members.query.s,
     response  |-> j.members.response.s,
     model     |-> j.members.model.s,
     metadata  |-> [k \in DOMAIN j.members.metadata.members |->
                        j.members.metadata.members[k].items]]

\* json.dumps / json.loads of a list of entry dicts
json_dumps(history) ==
    [json |-> "array",
     items |-> [i \in 1..Len(history) |-> JsonEncodeEntry(history[i])]]
json_loads(data) ==
    [i \in 1..Len(data.items) |-> JsonDecodeEntry(data.items[i])]

\* f"conversation:{session_id}"
RedisKey(session_id) == <<"conversation:", session_id>>

\* redis GET: the stored value, or None when the key is absent or expired
RedisGet(key) ==
    IF key \in DOMAIN redis_db /\ now < redis_db[key].expires_at
    THEN Some(redis_db[key].value) ELSE None

\* redis SETEX key ttl value
RedisSetex(db, key, ttl, value) ==
    DictSet(db, key, [value |-> value, expires_at |-> now + ttl])

\* redis DEL key
RedisDelete(db, key) == DictPop(db, key)

\* ---- private in-memory methods ------------------------------------------

\* the session ids _clean_old_sessions collects in expired_sessions
ExpiredSessionsNone == {}

ExpiredSessionsAtTtl ==
    {s \in DOMAIN memory_timestamps : now - memory_timestamps[s] >= ttl_seconds}

ExpiredSessions ==
    {s \in DOMAIN memory_timestamps : now - memory_timestamps[s] > ttl_seconds}

\* _clean_old_sessions applied to one of the two dicts
CleanOldKeepsAll(d) == d

CleanOld(d) == [s \in DOMAIN d \ ExpiredSessions |-> d[s]]

\* the trim at the end of both add paths
Trim(history, cap) ==
    IF Len(history) > cap THEN PySliceLast(history, cap) ELSE history

\* _add_memory_entry: memory_store after the call
MemoryStoreAfterAdd(session_id, entry) ==
    LET cleaned  == CleanOld(memory_store)
        appended == Append(DictGet(cleaned, session_id, <<>>), entry)
    IN  DictSet(cleaned, session_id, Trim(appended, max_history))

\* _add_memory_entry: memory_timestamps after the call
MemoryTimestampsAfterAdd(session_id) ==
    DictSet(CleanOld(memory_timestamps), session_id, now)

\* _get_memory_history
_get_memory_history(session_id, limit) ==
    LET history == DictGet(memory_store, session_id, <<>>)
    IN  IF limit # None /\ limit[1] # 0
        THEN PySliceLast(history, limit[1]) ELSE history

\* memory_store after a read: `self.memory_store.get(session_id, [])` does not
\* insert the key, where indexing the defaultdict would
MemoryStoreAfterReadInserts(session_id) ==
    IF use_redis \/ session_id \in DOMAIN memory_store THEN memory_store
    ELSE DictSet(memory_store, session_id, <<>>)

MemoryStoreAfterRead(session_id) == memory_store

\* clear_session on the in-memory backend: the two dicts after the call
MemoryStoreClearsAll(session_id) == EmptyDict

MemoryStoreAfterClear(session_id) == DictPop(memory_store, session_id)

MemoryTimestampsClearKeeps(session_id) == memory_timestamps

MemoryTimestampsAfterClear(session_id) == DictPop(memory_timestamps, session_id)

\* ---- private Redis methods ----------------------------------------------

\* _add_redis_entry: the list written back by setex
RedisHistoryAfterAdd(session_id, entry) ==
    LET data    == RedisGet(RedisKey(session_id))
        history == IF data # None THEN json_loads(data[1]) ELSE <<>>
    IN  Trim(Append(history, to_dict(entry)), max_history)

\* _get_redis_history (the Redis call succeeding)
_get_redis_history(session_id, limit) ==
    LET data == RedisGet(RedisKey(session_id))
        history == IF data = None THEN <<>>
                   ELSE [i \in 1..Len(json_loads(data[1])) |->
                            from_dict(json_loads(data[1])[i])]
    IN  IF data # None /\ limit # None /\ limit[1] # 0
        THEN PySliceLast(history, limit[1]) ELSE history

\* clear_session on the Redis backend: the server after the DEL
RedisAfterClear(session_id) == RedisDelete(redis_db, RedisKey(session_id))

\* get_history (the backend call succeeding)
GetHistory(session_id, limit) ==
    IF use_redis THEN _get_redis_history(session_id, limit)
    ELSE _get_memory_history(session_id, limit)

\* datetime.fromtimestamp(t).strftime("%H:%M:%S")
Strftime(t) ==
    [h |-> (t \div 3600) % 24, m |-> (t \div 60) % 60, s |-> t % 60]

\* the three lines get_formatted_history emits for one entry
FormatEntry(entry) ==
    << <<"[", Strftime(entry.timestamp), "] User: ", entry.query>>,
       <<"[", Strftime(entry.timestamp), "] Assistant: ",
         PyPrefix(entry.response, 200), "...">>,
       <<>> >>

RECURSIVE FormatLines(_)
FormatLines(history) ==
    IF history = <<>> THEN <<>>
    ELSE FormatEntry(Head(history)) \o FormatLines(Tail(history))

\* get_formatted_history: the text as its list of lines ("" is no line at all)
FormatHistory(history) == FormatLines(history)

\* ---- history bookkeeping --------------------------------------------------

\* the stored form of an entry, whichever the backend
Stored(entry) == IF use_redis THEN from_dict(to_dict(entry)) ELSE entry

\* the session's key has lapsed on the backend in use
Lapsed(s) ==
    IF use_redis
    THEN RedisKey(s) \in DOMAIN redis_db /\ RedisGet(RedisKey(s)) = None
    ELSE s \in ExpiredSessions

\* the list a session holds on the backend in use (empty when it holds none)
StoredHistory(s) ==
    IF use_redis
    THEN IF RedisGet(RedisKey(s)) = None THEN <<>>
         ELSE json_loads(RedisGet(RedisKey(s))[1])
    ELSE DictGet(memory_store, s, <<>>)

\* the last n elements of seq, n >= 0
LastN(seq, n) == SubSeq(seq, Len(seq) - Min(n, Len(seq)) + 1, Len(seq))

\* what a caller can observe of the store
StoreView ==
    IF use_redis
    THEN [s \in {x \in SessionIds : RedisGet(RedisKey(x)) # None} |->
            RedisGet(RedisKey(s))[1]]
    ELSE <<memory_store, memory_timestamps>>

\* the session holds nothing on the backend in use
SessionAbsent(s) ==
    IF use_redis THEN RedisGet(RedisKey(s)) = None
    ELSE s \notin DOMAIN memory_store /\ s \notin DOMAIN memory_timestamps

\* ---- the state after construction ---------------------------------------
StoreInit ==
    /\ use_redis \in BOOLEAN
    /\ max_history \in 0..MaxHistory
    /\ ttl_seconds \in {h * SecondsPerHour : h \in 1..MaxTtlHours}
    /\ memory_store = EmptyDict
    /\ memory_timestamps = EmptyDict
    /\ redis_db = EmptyDict
    /\ now = 0
    /\ ret = [op |-> "__init__", sid |-> "", arg |-> EmptyDict, fault |-> "none",
              raised |-> FALSE, value |-> None]
    /\ log = [s \in SessionIds |-> <<>>]
    /\ ttl_hit = [s \in SessionIds |-> FALSE]
    /\ pre_absent = FALSE
    /\ adds = 0

\* ---- operations ----------------------------------------------------------

\* time passes; the outcome of the last call is no longer the latest event
Tick ==
    /\ now < MaxTime * SecondsPerHour
    /\ now' = now + SecondsPerHour
    /\ ret' = [op |-> "tick", sid |-> "", arg |-> EmptyDict, fault |-> "none",
               raised |-> FALSE, value |-> None]
    /\ pre_absent' = FALSE
    /\ UNCHANGED <<tool_vars, aux_vars, use_redis, max_history, ttl_seconds,
                   memory_store, memory_timestamps, redis_db, log, ttl_hit, adds>>

\* add_entry on the in-memory backend
add_entry_memory(session_id, query, response, model, metadata) ==
    LET entry == ConversationEntry(now, query, response, model,
                    IF metadata = None THEN EmptyDict ELSE metadata[1])
    IN  /\ ~use_redis
        /\ adds < MaxAdds
        /\ adds' = adds + 1
        /\ memory_store' = MemoryStoreAfterAdd(session_id, entry)
        /\ memory_timestamps' = MemoryTimestampsAfterAdd(session_id)
        /\ ret' = [op |-> "add_entry", sid |-> session_id,
                   arg |-> [query |-> query, response |-> response,
                            model |-> model, metadata |-> metadata],
                   fault |-> "none", raised |-> FALSE, value |-> None]
        /\ log' = [s \in SessionIds |->
                     IF s = session_id
                     THEN Append(IF Lapsed(s) THEN <<>> ELSE log[s], Stored(entry))
                     ELSE log[s]]
        /\ ttl_hit' = [s \in SessionIds |-> ttl_hit[s] \/ Lapsed(s)]
        /\ pre_absent' = FALSE
        /\ UNCHANGED <<tool_vars, aux_vars, use_redis, max_history, ttl_seconds, redis_db, now>>

\* add_entry on the Redis backend; fail names the Redis call that raises
add_entry_redis(session_id, query, response, model, metadata, fail) ==
    LET entry == ConversationEntry(now, query, response, model,
                    IF metadata = None THEN EmptyDict ELSE metadata[1])
        key   == RedisKey(session_id)
    IN  /\ use_redis
        /\ adds < MaxAdds
        /\ adds' = adds + 1
        /\ IF fail = "none"
           THEN /\ redis_db' = RedisSetex(redis_db, key, ttl_seconds,
                                  json_dumps(RedisHistoryAfterAdd(session_id, entry)))
                /\ log' = [log EXCEPT ![session_id] =
                             Append(IF Lapsed(session_id) THEN <<>> ELSE @,
                                    Stored(entry))]
                /\ ttl_hit' = [ttl_hit EXCEPT ![session_id] = @ \/ Lapsed(session_id)]
           ELSE UNCHANGED <<redis_db, log, ttl_hit>>
        /\ ret' = [op |-> "add_entry", sid |-> session_id,
                   arg |-> [query |-> query, response |-> response,
                            model |-> model, metadata |-> metadata],
                   fault |-> fail, raised |-> (fail # "none"), value |-> None]
        /\ pre_absent' = FALSE
        /\ UNCHANGED <<tool_vars, aux_vars, use_redis, max_history, ttl_seconds, memory_store,
                       memory_timestamps, now>>

\* get_history; fail: the Redis GET raises
get_history(session_id, limit, fail) ==
    /\ fail => use_redis
    /\ ret' = [op |-> "get_history", sid |-> session_id,
               arg |-> [limit |-> limit],
               fault |-> IF fail THEN "get" ELSE "none", raised |-> fail,
               value |-> IF fail THEN None
                         ELSE Some(GetHistory(session_id, limit))]
    /\ pre_absent' = FALSE
    /\ memory_store' = MemoryStoreAfterRead(session_id)
    /\ UNCHANGED <<tool_vars, aux_vars, use_redis, max_history, ttl_seconds,
                   memory_timestamps, redis_db, now, log, ttl_hit, adds>>

\* get_formatted_history; fail: the Redis GET raises
get_formatted_history(session_id, limit, fail) ==
    /\ fail => use_redis
    /\ ret' = [op |-> "get_formatted_history", sid |-> session_id,
               arg |-> [limit |-> limit],
               fault |-> IF fail THEN "get" ELSE "none", raised |-> fail,
               value |-> IF fail THEN None
                         ELSE Some(FormatHistory(GetHistory(session_id, limit)))]
    /\ pre_absent' = FALSE
    /\ memory_store' = MemoryStoreAfterRead(session_id)
    /\ UNCHANGED <<tool_vars, aux_vars, use_redis, max_history, ttl_seconds,
                   memory_timestamps, redis_db, now, log, ttl_hit, adds>>

\* clear_session; fail: the Redis DEL raises
clear_session(session_id, fail) ==
    /\ fail => use_redis
    /\ IF use_redis
       THEN /\ redis_db' = IF fail THEN redis_db ELSE RedisAfterClear(session_id)
            /\ UNCHANGED <<memory_store, memory_timestamps>>
       ELSE /\ memory_store' = MemoryStoreAfterClear(session_id)
            /\ memory_timestamps' = MemoryTimestampsAfterClear(session_id)
            /\ UNCHANGED redis_db
    /\ IF fail THEN UNCHANGED <<log, ttl_hit>>
       ELSE /\ log' = [log EXCEPT ![session_id] = <<>>]
            /\ ttl_hit' = [ttl_hit EXCEPT ![session_id] = FALSE]
    /\ ret' = [op |-> "clear_session", sid |-> session_id, arg |-> EmptyDict,
               fault |-> IF fail THEN "delete" ELSE "none", raised |-> fail,
               value |-> None]
    /\ pre_absent' = SessionAbsent(session_id)
    /\ UNCHANGED <<tool_vars, aux_vars, use_redis, max_history, ttl_seconds, now, adds>>

\* query.split(): our queries are one word of two characters, capitalised
Words(query) == <<[text |-> query, len |-> 2, capital |-> TRUE]>>

\* the capitalised words longer than three characters of one query (a
\* one-word query has no two-word entity)
Keywords(query) ==
    {Words(query)[j].text :
        j \in {k \in DOMAIN Words(query) :
                  Words(query)[k].capital /\ Words(query)[k].len > 3}}

\* _extract_topics: the keywords found, as a set (at most five are returned)
_extract_topics(history) ==
    LET keywords == UNION {Keywords(history[i].query) : i \in DOMAIN history}
    IN  IF Cardinality(keywords) <= 5 THEN keywords
        ELSE CHOOSE topics \in SUBSET keywords : Cardinality(topics) = 5

\* datetime.fromtimestamp(t).isoformat()
Isoformat(t) == [iso |-> t]

\* the dict get_session_summary returns for a history
SessionSummary(session_id, history) ==
    IF history = <<>>
    THEN [session_id |-> session_id, total_exchanges |-> 0, start_time |-> None,
          last_activity |-> None, topics |-> {}]
    ELSE [session_id |-> session_id,
          total_exchanges |-> Len(history),
          start_time |-> Some(Isoformat(history[1].timestamp)),
          last_activity |-> Some(Isoformat(history[Len(history)].timestamp)),
          duration_minutes |->
              (history[Len(history)].timestamp - history[1].timestamp) \div 60,
          models_used |-> {history[i].model : i \in DOMAIN history},
          topics |-> _extract_topics(history)]

\* get_session_summary; fail: the Redis GET raises
get_session_summary(session_id, fail) ==
    /\ fail => use_redis
    /\ ret' = [op |-> "get_session_summary", sid |-> session_id,
               arg |-> EmptyDict,
               fault |-> IF fail THEN "get" ELSE "none", raised |-> fail,
               value |-> IF fail THEN None
                         ELSE Some(SessionSummary(session_id,
                                                  GetHistory(session_id, None)))]
    /\ pre_absent' = FALSE
    /\ memory_store' = MemoryStoreAfterRead(session_id)
    /\ UNCHANGED <<tool_vars, aux_vars, use_redis, max_history, ttl_seconds,
                   memory_timestamps, redis_db, now, log, ttl_hit, adds>>

AddMemory ==
    \E s \in SessionIds, x \in Exchanges :
        add_entry_memory(s, x.query, x.response, x.model, x.metadata)

AddRedis ==
    \E s \in SessionIds, x \in Exchanges, fail \in {"none", "get", "setex"} :
        add_entry_redis(s, x.query, x.response, x.model, x.metadata, fail)

GetHistoryCall ==
    \E s \in SessionIds, l \in Limits, fail \in BOOLEAN : get_history(s, l, fail)

GetFormattedCall ==
    \E s \in SessionIds, l \in Limits, fail \in BOOLEAN :
        get_formatted_history(s, l, fail)

ClearCall ==
    \E s \in SessionIds, fail \in BOOLEAN : clear_session(s, fail)

SummaryCall ==
    \E s \in SessionIds, fail \in BOOLEAN : get_session_summary(s, fail)

\* ============================== API tools ==================================
\* A message or display text is the sequence of its fragments; a credential
\* is a text [id, len]; a location argument is the sequence of its characters.
\* A parsed JSON value carries its Python type: [t |-> "dict", d |-> record]
\* or [t |-> "list", items |-> sequence].

DEFAULT_TIMEOUT     == 10
DEFAULT_RETRY_DELAY == 1
WEATHER_MAX_RETRIES == 2
FMP_MAX_RETRIES     == 2
LOADER_TIMEOUT      == 30
MIN_KEY_LENGTH      == 10

Text(id, len) == [id |-> id, len |-> len]
JDict(r) == [t |-> "dict", d |-> r]
JList(q) == [t |-> "list", items |-> q]

\* `fragment in text`
Contains(text, fragment) == \E i \in DOMAIN text : text[i] = fragment

\* os.environ.get(name, "")
EnvGet(value) == IF value = None THEN Text("", 0) ELSE value[1]

\* `if api_key:` -- None and "" are false
Truthy(value) == value # None /\ value[1].len > 0

\* the keys of a record in a fixed order
RECURSIVE KeySeq(_)
KeySeq(keys) ==
    IF keys = {} THEN <<>>
    ELSE LET k == CHOOSE x \in keys : TRUE IN <<k>> \o KeySeq(keys \ {k})

\* ---- tools/errors.py ------------------------------------------------------

\* str(create_api_key_error(service_name, details))
ApiKeyErrorText(service, too_short) ==
    <<"ERROR-", "AUTH001", ": ", service.upper, " ", "API key", " error",
      "- Problem: ", "Missing or invalid ", service.name, " ", "API key",
      "- Source: ", "- Solution: ", "Check your .env file for a valid ",
      service.upper, "_API_KEY">>
    \o (IF too_short
        THEN <<"- Details: ", "hint=", "API key appears to be too short">>
        ELSE <<>>)

\* ---- tools/api_tool_template.py --------------------------------------------

\* validate_api_key: None when the key passes, else the text of the error raised
validate_api_key(api_key, service) ==
    IF api_key.len = 0 THEN Some(ApiKeyErrorText(service, FALSE))
    ELSE IF api_key.len < MIN_KEY_LENGTH THEN Some(ApiKeyErrorText(service, TRUE))
    ELSE None

\* the display format_response builds for a dict: one "k: v" line per item
RECURSIVE KVLines(_, _)
KVLines(d, keys) ==
    IF keys = <<>> THEN <<>>
    ELSE (IF Head(keys) # "raw_data"
          THEN <<Head(keys), ": ", ToString(d[Head(keys)])>> ELSE <<>>)
         \o KVLines(d, Tail(keys))

\* format_response(data) with include_raw=False
format_response(data) ==
    IF data.t = "dict" /\ "error" \in DOMAIN data.d THEN data.d
    ELSE IF data.t = "dict" THEN
        IF "display" \notin DOMAIN data.d
        THEN [status |-> "success", data |-> data,
              display |-> IF DOMAIN data.d # {}
                          THEN KVLines(data.d, KeySeq(DOMAIN data.d))
                          ELSE <<"No data returned">>]
        ELSE [status |-> "success", data |-> data]
    ELSE IF data.t = "list" THEN
        [status |-> "success", data |-> data,
         display |-> IF Len(data.items) > 0
                     THEN <<"Retrieved ", ToString(Len(data.items)), " items">>
                     ELSE <<"No items returned">>]
    ELSE [status |-> "success", data |-> data, display |-> <<data.s>>]

\* ---- the HTTP requester ----------------------------------------------------

\* what one requests.get can do: raise, or answer with a status and a body
NoBody == [json |-> None, text |-> ""]
JsonBody(v) == [json |-> Some(v), text |-> "json"]
TextBody(text) == [json |-> None, text |-> text]

WeatherFull ==
    [location |-> [name |-> "London", region |-> "", country |-> "UK"],
     current  |-> [temp_c |-> "15.0", temp_f |-> "59.0",
                   condition |-> [text |-> "Cloudy"], wind_kph |-> "5.6",
                   wind_dir |-> "SW", humidity |-> "75",
                   feelslike_c |-> "14.7", feelslike_f |-> "58.5"]]

WeatherMinimal ==
    [location |-> [name |-> "London", country |-> "UK"],
     current  |-> [temp_c |-> "15", condition |-> [text |-> "Cloudy"]]]

WeatherFullWithErrorKey ==
    [location |-> WeatherFull.location, current |-> WeatherFull.current,
     error |-> [message |-> "partial data"]]

QuoteItem ==
    [symbol |-> "AAPL", price |-> 1, change |-> 0, changesPercentage |-> 0,
     previousClose |-> 1, dayLow |-> 1, dayHigh |-> 1]

ProfileItem == [symbol |-> "AAPL", companyName |-> "Apple"]

NewsItem == [title |-> "News", symbol |-> "AAPL"]

OkBodies ==
    {JsonBody(JDict(WeatherFull)), JsonBody(JDict(WeatherMinimal)),
     JsonBody(JDict(WeatherFullWithErrorKey)),
     JsonBody(JDict([message |-> "ok"])), JsonBody(JDict(EmptyDict)),
     JsonBody(JList(<<QuoteItem>>)), JsonBody(JList(<<ProfileItem>>)),
     JsonBody(JList(<<NewsItem>>)), JsonBody(JList(<<>>)),
     TextBody("<html>")}

ErrorBodies ==
    {JsonBody(JDict([error |-> [message |-> "No matching location found."]])),
     JsonBody(JDict([message |-> "Not Found"])),
     TextBody("Not Found"), TextBody("")}

HttpOutcomes ==
    {[kind |-> k, status_code |-> 0, body |-> NoBody] :
        k \in {"Timeout", "ConnectionError", "RequestException", "Exception"}}
    \cup {[kind |-> "response", status_code |-> 200, body |-> b] : b \in OkBodies}
    \cup {[kind |-> "response", status_code |-> c, body |-> b] :
            c \in {404, 500}, b \in ErrorBodies}

\* no request was issued by this call of the body
NoRequest == [kind |-> "no_request", status_code |-> 0, body |-> NoBody]

\* response.ok / bool(response)
ResponseOk(response) == response.status_code < 400

\* an exception object: its class and its response attribute
Exc(type, response) == [type |-> type, response |-> response]

\* str(e) of an exception raised by requests
ExcText(e) ==
    IF e.type = "HTTPError"
    THEN <<ToString(e.response[1].status_code), " Error: ", "for url">>
    ELSE <<e.type>>

\* how one call of a tool body ends
Return(value, reqs) == [kind |-> "return", value |-> value, requests |-> reqs]
Raise(e, reqs)      == [kind |-> "raise", value |-> e, requests |-> reqs]

\* requests.get(...) followed by response.raise_for_status(): the exception it
\* raises, or None when the response is 2xx
GetRaises(http) ==
    IF http.kind # "response" THEN Some(Exc(http.kind, None))
    ELSE IF ~ResponseOk(http)
    THEN Some(Exc("HTTPError",
                  Some([status_code |-> http.status_code, body |-> http.body])))
    ELSE None

\* `key in data` for a parsed JSON value (list items here are dicts)
JsonHas(data, key) == data.t = "dict" /\ key \in DOMAIN data.d

\* `not data` for a parsed JSON value
JsonEmpty(data) == IF data.t = "dict" THEN DOMAIN data.d = {} ELSE Len(data.items) = 0

\* str.strip() of a sequence of characters
RECURSIVE LStrip(_)
LStrip(chars) ==
    IF chars # <<>> /\ Head(chars) = " " THEN LStrip(Tail(chars)) ELSE chars

RECURSIVE RStrip(_)
RStrip(chars) ==
    IF chars # <<>> /\ chars[Len(chars)] = " "
    THEN RStrip(SubSeq(chars, 1, Len(chars) - 1)) ELSE chars

Strip(chars) == RStrip(LStrip(chars))

\* ---- tools/weather_api.py --------------------------------------------------

WEATHER_URL == "https://api.weatherapi.com/v1/current.json"
WeatherService == [name |-> "weather", upper |-> "WEATHER"]

\* the subscripts the display f-string evaluates; a missing one is a KeyError
WeatherDisplayable(d) ==
    /\ {"name", "country"} \subseteq DOMAIN d.location
    /\ {"temp_c", "temp_f", "condition", "wind_kph", "wind_dir", "humidity",
        "feelslike_c", "feelslike_f"} \subseteq DOMAIN d.current
    /\ "text" \in DOMAIN d.current.condition

WeatherDisplay(d) ==
    <<"Weather for ", d.location.name, ", ", DictGet(d.location, "region", ""),
      ", ", d.location.country, ":",
      "- Temperature: ", d.current.temp_c, "C / ", d.current.temp_f, "F",
      "- Conditions: ", d.current.condition.text,
      "- Wind: ", d.current.wind_kph, " kph (", d.current.wind_dir, ")",
      "- Humidity: ", d.current.humidity, "%",
      "- Feels like: ", d.current.feelslike_c, "C / ", d.current.feelslike_f, "F">>

\* the message the HTTPError handler of weather_api extracts
WeatherErrorMessage(e) ==
    LET body == e.response[1].body IN
    IF body.json # None
    THEN IF JsonHas(body.json[1], "error")
         THEN IF "message" \in DOMAIN body.json[1].d.error
              THEN <<body.json[1].d.error.message>>
              ELSE ExcText(e)
         ELSE ExcText(e)
    ELSE IF body.text # "" THEN <<body.text>> ELSE ExcText(e)

\* weather_api below its decorators: one call of the function body
weather_api(a, http) ==
    LET api_key == EnvGet(a.api_key)
        invalid == validate_api_key(api_key, WeatherService)
        reqs    == <<[url |-> WEATHER_URL, headers |-> EmptyDict,
                      params |-> [key |-> api_key, q |-> a.location],
                      timeout |-> DEFAULT_TIMEOUT]>>
        exc     == GetRaises(http)
    IN
    IF invalid # None
    THEN Return([error |-> invalid[1], status |-> "error"], <<>>)
    ELSE IF Len(a.location) = 0 \/ Len(Strip(a.location)) = 0
    THEN Return([error |-> <<"Location parameter cannot be empty">>,
                 status |-> "error",
                 hint |-> "Please provide a valid location"], <<>>)
    ELSE IF exc # None
    THEN IF exc[1].type \in {"Timeout", "ConnectionError"}
         THEN Raise(exc[1], reqs)
         ELSE IF exc[1].type = "HTTPError"
         THEN Return([error |-> <<"Weather API error: ">>
                                   \o WeatherErrorMessage(exc[1]),
                      status |-> "error",
                      status_code |-> Some(exc[1].response[1].status_code)], reqs)
         ELSE Return([error |-> <<"Unexpected error: ">> \o ExcText(exc[1]),
                      status |-> "error"], reqs)
    ELSE IF http.body.json = None
    THEN Return([error |-> <<"Invalid JSON response">>, status |-> "error",
                 response |-> Some(http.body.text)], reqs)
    ELSE LET data == http.body.json[1] IN
         IF ~JsonHas(data, "location") \/ ~JsonHas(data, "current")
         THEN Return([error |-> <<"Invalid response format">>,
                      status |-> "error",
                      hint |-> "API response is missing required fields"], reqs)
         ELSE IF ~WeatherDisplayable(data.d)
         THEN Return([error |-> <<"Unexpected error: ", "KeyError">>,
                      status |-> "error"], reqs)
         ELSE Return(format_response(
                        JDict(DictSet(data.d, "display", WeatherDisplay(data.d)))),
                     reqs)

\* ---- tools/financial_api.py ------------------------------------------------

BASE_URL == "https://financialmodelingprep.com/api/v3"
FmpService == [name |-> "Financial Modeling Prep",
               upper |-> "FINANCIAL MODELING PREP"]

\* an endpoint path is its leading segment and the symbol appended to it
Endpoints ==
    {[prefix |-> "/quote/", symbol |-> "AAPL"],
     [prefix |-> "/profile/", symbol |-> "AAPL"],
     [prefix |-> "/stock_news", symbol |-> ""],
     [prefix |-> "/income-statement/", symbol |-> "AAPL"]}

\* f"{value:.2f}" of a whole number
Fmt2f(n) == <<ToString(n), ".00">>

QuoteDisplayable(quote) ==
    {"symbol", "price", "change", "changesPercentage", "previousClose",
     "dayLow", "dayHigh"} \subseteq DOMAIN quote

_format_stock_price_response(data) ==
    LET formatted == format_response(data) IN
    IF data.t = "list" /\ Len(data.items) > 0 /\ QuoteDisplayable(data.items[1])
    THEN DictSet(formatted, "display",
            <<"Stock Data for ", data.items[1].symbol, " (",
              DictGet(data.items[1], "name", "Unknown"), "):", "- Price: $">>
            \o Fmt2f(data.items[1].price) \o <<"- Change: $">>
            \o Fmt2f(data.items[1].change) \o <<" (">>
            \o Fmt2f(data.items[1].changesPercentage) \o <<"%)">>
            \o <<"- Previous Close: $">> \o Fmt2f(data.items[1].previousClose)
            \o <<"- Day Range: $">> \o Fmt2f(data.items[1].dayLow) \o <<" - $">>
            \o Fmt2f(data.items[1].dayHigh))
    ELSE formatted

_format_company_profile_response(data) ==
    LET formatted == format_response(data) IN
    IF data.t = "list" /\ Len(data.items) > 0
       /\ {"companyName", "symbol"} \subseteq DOMAIN data.items[1]
    THEN DictSet(formatted, "display",
            <<"Company Profile: ", data.items[1].companyName, " (",
              data.items[1].symbol, ")",
              "- Industry: ", DictGet(data.items[1], "industry", "N/A")>>)
    ELSE formatted

RECURSIVE NewsLines(_, _)
NewsLines(articles, i) ==
    IF i > Len(articles) \/ i > 5 THEN <<>>
    ELSE <<ToString(i), ". ", DictGet(articles[i], "title", "No Title"),
           "   Symbol: ", DictGet(articles[i], "symbol", "N/A"), "">>
         \o NewsLines(articles, i + 1)

_format_news_response(data) ==
    LET formatted == format_response(data) IN
    IF data.t = "list" /\ NewsLines(data.items, 1) # <<>>
    THEN DictSet(formatted, "display", NewsLines(data.items, 1))
    ELSE formatted

\* _make_fmp_request(endpoint, params, description): one call of the body
_make_fmp_request(a, http) ==
    LET api_key == EnvGet(a.api_key)
        invalid == validate_api_key(api_key, FmpService)
        reqs    == <<[url |-> <<BASE_URL, a.endpoint.prefix, a.endpoint.symbol>>,
                      headers |-> EmptyDict,
                      params |-> DictSet(a.kwargs, "apikey", api_key),
                      timeout |-> DEFAULT_TIMEOUT]>>
        exc     == GetRaises(http)
    IN
    IF invalid # None
    THEN Return([error |-> invalid[1], status |-> "error"], <<>>)
    ELSE IF exc # None
    THEN IF exc[1].type \in {"Timeout", "ConnectionError"}
         THEN Raise(exc[1], reqs)
         ELSE IF exc[1].type = "HTTPError"
         THEN LET body == exc[1].response[1].body IN
              Return([error |-> <<"Financial Modeling Prep API error: ">> \o
                        (IF body.json # None
                         THEN IF ~JsonEmpty(body.json[1])
                              THEN <<ToString(body.json[1])>>
                              ELSE ExcText(exc[1])
                         ELSE IF body.text # "" THEN <<body.text>>
                              ELSE ExcText(exc[1])),
                      status |-> "error",
                      status_code |-> Some(exc[1].response[1].status_code)], reqs)
         ELSE Return([error |-> <<"Unexpected error: ">> \o ExcText(exc[1]),
                      status |-> "error"], reqs)
    ELSE IF http.body.json = None
    THEN Return([error |-> <<"Invalid JSON response">>, status |-> "error",
                 response |-> Some(http.body.text)], reqs)
    ELSE LET data == http.body.json[1] IN
         IF JsonEmpty(data)
         THEN Return([status |-> "success",
                      message |-> <<"No ", a.description,
                                    " found for the provided parameters">>,
                      data |-> JList(<<>>)], reqs)
         ELSE IF a.endpoint.prefix = "/quote/"
         THEN Return(_format_stock_price_response(data), reqs)
         ELSE IF a.endpoint.prefix = "/profile/"
         THEN Return(_format_company_profile_response(data), reqs)
         ELSE IF a.endpoint.prefix \in {"/stock_news", "/stock_market/news"}
         THEN Return(_format_news_response(data), reqs)
         ELSE Return(format_response(data), reqs)

\* ---- tools/mcp_api_loader.py -----------------------------------------------

AuthTypes ==
    {"Bearer", "bearer", "API-Key", "Query-Key", "query-param-apikey",
     "query-param-api_key", "X-RapidAPI-Key", "Token", "none"}

\* str.lower() on the authentication types
Lower(s) ==
    CASE s = "Bearer" -> "bearer"
      [] s = "API-Key" -> "api-key"
      [] s = "Query-Key" -> "query-key"
      [] s = "X-RapidAPI-Key" -> "x-rapidapi-key"
      [] s = "Token" -> "token"
      [] OTHER -> s

\* an endpoint URL, its netloc, and whether "rapidapi.com" occurs in it
LoaderEndpoints ==
    {[url |-> "https://api.example.com/v1", netloc |-> "api.example.com",
      rapidapi |-> FALSE],
     [url |-> "https://x.p.rapidapi.com/v1", netloc |-> "x.p.rapidapi.com",
      rapidapi |-> TRUE]}

\* the headers api_tool_function sends
LoaderHeaders(a) ==
    LET auth == Lower(a.auth_type) IN
    IF ~Truthy(a.api_key) THEN EmptyDict
    ELSE IF auth = "bearer"
    THEN [Authorization |-> <<"Bearer", " ", a.api_key[1]>>]
    ELSE IF auth = "api-key" THEN ("X-API-Key" :> a.api_key[1])
    ELSE IF auth \in {"query-key", "query-param-apikey", "query-param-api_key"}
    THEN EmptyDict
    ELSE IF auth = "x-rapidapi-key"
    THEN IF a.endpoint.rapidapi
         THEN ("X-RapidAPI-Key" :> a.api_key[1])
              @@ ("X-RapidAPI-Host" :> a.endpoint.netloc)
         ELSE ("X-RapidAPI-Key" :> a.api_key[1])
    ELSE [Authorization |-> <<a.auth_type, " ", a.api_key[1]>>]

\* the query parameters api_tool_function sends: kwargs.copy(), then the
\* credential assigned under the scheme's name
LoaderParamsCallerWins(a) ==
    LET auth == Lower(a.auth_type)
        name == CASE auth = "query-key" -> "key"
                  [] auth = "query-param-apikey" -> "apikey"
                  [] auth = "query-param-api_key" -> "api_key"
                  [] OTHER -> ""
    IN  IF ~Truthy(a.api_key) \/ name = "" \/ name \in DOMAIN a.kwargs
        THEN a.kwargs ELSE DictSet(a.kwargs, name, a.api_key[1])

LoaderParams(a) ==
    LET auth == Lower(a.auth_type) IN
    IF ~Truthy(a.api_key) THEN a.kwargs
    ELSE IF auth = "query-key" THEN DictSet(a.kwargs, "key", a.api_key[1])
    ELSE IF auth = "query-param-apikey"
    THEN DictSet(a.kwargs, "apikey", a.api_key[1])
    ELSE IF auth = "query-param-api_key"
    THEN DictSet(a.kwargs, "api_key", a.api_key[1])
    ELSE a.kwargs

\* the callable create_api_tool returns: one call.  A returned dict is the
\* record itself; a returned list keeps its type tag.
api_tool_function(a, http) ==
    LET reqs == <<[url |-> a.endpoint.url, headers |-> LoaderHeaders(a),
                   params |-> LoaderParams(a), timeout |-> LOADER_TIMEOUT]>>
        exc  == GetRaises(http)
    IN
    IF exc # None
    THEN IF exc[1].type = "Exception"
         THEN Return([error |-> ExcText(exc[1]), status |-> "error"], reqs)
         ELSE Return([error |-> ExcText(exc[1]), status |-> "failed"], reqs)
    ELSE IF http.body.json = None
    THEN Return([response |-> Some(http.body.text)], reqs)
    ELSE IF http.body.json[1].t = "dict"
    THEN Return(http.body.json[1].d, reqs)
    ELSE Return(http.body.json[1], reqs)

\* ---- tools/direct_mcp_tools.py ---------------------------------------------

\* the headers api_tool sends: an authentication type it does not know adds
\* none
DirectHeaders(a) ==
    LET auth == Lower(a.auth_type) IN
    IF ~Truthy(a.api_key) THEN EmptyDict
    ELSE IF auth = "bearer"
    THEN [Authorization |-> <<"Bearer", " ", a.api_key[1]>>]
    ELSE IF auth = "api-key" THEN ("X-API-Key" :> a.api_key[1])
    ELSE IF auth = "x-rapidapi-key"
    THEN IF a.endpoint.rapidapi
         THEN ("X-RapidAPI-Key" :> a.api_key[1])
              @@ ("X-RapidAPI-Host" :> a.endpoint.netloc)
         ELSE ("X-RapidAPI-Key" :> a.api_key[1])
    ELSE EmptyDict

\* the callable create_api_tool of direct_mcp_tools returns: one call
api_tool(a, http) ==
    LET reqs == <<[url |-> a.endpoint.url, headers |-> DirectHeaders(a),
                   params |-> LoaderParams(a), timeout |-> LOADER_TIMEOUT]>>
        exc  == GetRaises(http)
    IN
    IF exc # None THEN Return([error |-> ExcText(exc[1])], reqs)
    ELSE IF http.body.json = None
    THEN Return([response |-> Some(http.body.text)], reqs)
    ELSE IF http.body.json[1].t = "dict"
    THEN Return(http.body.json[1].d, reqs)
    ELSE Return(http.body.json[1], reqs)

\* ---- with_retry and the invocation of a tool -------------------------------

\* func: the decorator's parameter when it is a callable that handles no
\* exception of the HTTP call itself
func(a, http) ==
    LET reqs == <<[url |-> "https://api.example.com/v1/search",
                   headers |-> EmptyDict, params |-> a.kwargs,
                   timeout |-> DEFAULT_TIMEOUT]>>
        exc  == GetRaises(http)
    IN
    IF exc # None THEN Raise(exc[1], reqs)
    ELSE IF http.body.json = None THEN Raise(Exc("Exception", None), reqs)
    ELSE Return(format_response(http.body.json[1]), reqs)

Tools == {"func", "weather_api", "_make_fmp_request", "create_api_tool",
          "api_tool"}

\* the tools that are called without the with_retry wrapper
Undecorated == {"create_api_tool", "api_tool"}

NoKey    == Text("", 0)
ShortKey == Text("testkey", 7)
GoodKey  == Text("test_api_key", 12)
EnvKeys  == {None, Some(NoKey), Some(ShortKey), Some(GoodKey)}

Locations == {<<>>, <<" ">>, <<"L", "o", "n", "d", "o", "n">>}

NoEndpoint == [prefix |-> "", symbol |-> ""]

\* the keyword arguments a caller passes to a loaded tool; the second set uses
\* the names the query-key schemes use
CallersValue == Text("callers_own", 11)
PlainKwargs == [q |-> "test"]
NamedLikeKeys ==
    [q |-> "test", key |-> CallersValue, apikey |-> CallersValue,
     api_key |-> CallersValue]

\* the configurations and keyword arguments a loaded tool is called with: every
\* authentication type on a plain endpoint, the RapidAPI type on a RapidAPI
\* endpoint as well, and the types that never set a header with keyword
\* arguments named like the key parameters as well
LoaderCalls ==
    {[auth |-> auth, ep |-> ep, kw |-> PlainKwargs] :
        auth \in AuthTypes, ep \in {e \in LoaderEndpoints : ~e.rapidapi}}
    \cup {[auth |-> "X-RapidAPI-Key", ep |-> ep, kw |-> PlainKwargs] :
            ep \in LoaderEndpoints}
    \cup {[auth |-> auth, ep |-> ep, kw |-> NamedLikeKeys] :
            auth \in {"Query-Key", "query-param-apikey", "query-param-api_key"},
            ep \in {e \in LoaderEndpoints : ~e.rapidapi}}

Args(m, d, key, loc, auth, ep, kw) ==
    [max_retries |-> m, retry_delay |-> d, api_key |-> key, location |-> loc,
     auth_type |-> auth, endpoint |-> ep, kwargs |-> kw,
     description |-> "data"]

\* the arguments and configuration each tool can be invoked with
ArgsFor(t) ==
    CASE t = "func" ->
            {Args(m, d, None, <<>>, "", NoEndpoint, [q |-> "test"]) :
                m \in 0..MaxRetries, d \in 1..MaxRetryDelay}
      [] t = "weather_api" ->
            {Args(WEATHER_MAX_RETRIES, DEFAULT_RETRY_DELAY, k, l, "", NoEndpoint,
                  EmptyDict) : k \in EnvKeys, l \in Locations}
      [] t = "_make_fmp_request" ->
            {Args(FMP_MAX_RETRIES, DEFAULT_RETRY_DELAY, k, <<>>, "", ep,
                  EmptyDict) : k \in EnvKeys, ep \in Endpoints}
      [] t \in Undecorated ->
            {Args(0, DEFAULT_RETRY_DELAY, k, <<>>, c.auth, c.ep, c.kw) :
                k \in EnvKeys, c \in LoaderCalls}

\* one call of the body of tool t
Body(t, a, http) ==
    CASE t = "func" -> func(a, http)
      [] t = "weather_api" -> weather_api(a, http)
      [] t = "_make_fmp_request" -> _make_fmp_request(a, http)
      [] t = "create_api_tool" -> api_tool_function(a, http)
      [] t = "api_tool" -> api_tool(a, http)

\* what the record of calls keeps of one call
CallEntry(eff, http) == IF eff.requests = <<>> THEN NoRequest ELSE http

NoResult == [raised |-> FALSE, value |-> EmptyDict]

\* the dict with_retry returns for a RequestException it does not retry
RequestFailed(e) ==
    LET has == e.response # None /\ ResponseOk(e.response[1]) IN
    [error |-> <<"API request failed: ">> \o ExcText(e),
     status |-> "error",
     status_code |-> IF has THEN Some(e.response[1].status_code) ELSE None,
     response |-> IF has THEN Some(e.response[1].body) ELSE None]

\* the dict with_retry returns once the loop is left with an error recorded
RetriesExhausted(m, e) ==
    [error |-> <<"Failed after ", ToString(m), " retries: ">> \o ExcText(e),
     status |-> "error",
     details |-> "Request timed out repeatedly"]

ToolIdle ==
    /\ tool = ""
    /\ args = Args(0, DEFAULT_RETRY_DELAY, None, <<>>, "", NoEndpoint, EmptyDict)
    /\ pc = "idle"
    /\ retries = 0
    /\ last_error = None
    /\ calls = <<>>
    /\ requests = <<>>
    /\ sleeps = <<>>
    /\ result = NoResult

\* the caller invokes tool t with arguments a
Invoke(t, a) ==
    /\ pc = "idle"
    /\ tool' = t
    /\ args' = a
    /\ pc' = IF t \in Undecorated THEN "call" ELSE "loop"
    /\ retries' = 0
    /\ last_error' = None
    /\ calls' = <<>>
    /\ requests' = <<>>
    /\ sleeps' = <<>>
    /\ result' = NoResult
    /\ UNCHANGED <<store_vars, aux_vars>>

\* one iteration of the wrapper's while loop
WrapperTry ==
    /\ pc = "loop"
    /\ retries < args.max_retries
    /\ \E http \in HttpOutcomes :
        LET eff == Body(tool, args, http) IN
        /\ calls' = Append(calls, CallEntry(eff, http))
        /\ requests' = requests \o eff.requests
        /\ IF eff.kind = "return"
           THEN /\ pc' = "done"
                /\ result' = [raised |-> FALSE, value |-> eff.value]
                /\ UNCHANGED <<retries, last_error, sleeps>>
           ELSE IF eff.value.type \in {"Timeout", "ConnectionError"}
           THEN /\ retries' = retries + 1
                /\ last_error' = Some(eff.value)
                /\ sleeps' = Append(sleeps, args.retry_delay * (2 ^ (retries + 1)))
                /\ UNCHANGED <<pc, result>>
           ELSE IF eff.value.type \in {"HTTPError", "RequestException"}
           THEN /\ pc' = "done"
                /\ result' = [raised |-> FALSE, value |-> RequestFailed(eff.value)]
                /\ UNCHANGED <<retries, last_error, sleeps>>
           ELSE /\ pc' = "done"
                /\ result' = [raised |-> TRUE, value |-> eff.value]
                /\ UNCHANGED <<retries, last_error, sleeps>>
    /\ UNCHANGED <<store_vars, aux_vars, tool, args>>

\* the loop is left with an error recorded
WrapperGiveUp ==
    /\ pc = "loop"
    /\ ~(retries < args.max_retries)
    /\ last_error # None
    /\ pc' = "done"
    /\ result' = [raised |-> FALSE,
                  value |-> RetriesExhausted(args.max_retries, last_error[1])]
    /\ UNCHANGED <<store_vars, aux_vars, tool, args, retries, last_error, calls,
                   requests, sleeps>>

\* the loop is left with no error recorded: the call after the loop
WrapperFinalCall ==
    /\ pc = "loop"
    /\ ~(retries < args.max_retries)
    /\ last_error = None
    /\ \E http \in HttpOutcomes :
        LET eff == Body(tool, args, http) IN
        /\ calls' = Append(calls, CallEntry(eff, http))
        /\ requests' = requests \o eff.requests
        /\ result' = [raised |-> eff.kind = "raise", value |-> eff.value]
    /\ pc' = "done"
    /\ UNCHANGED <<store_vars, aux_vars, tool, args, retries, last_error, sleeps>>

\* a call of the callable built by create_api_tool
LoaderCall ==
    /\ pc = "call"
    /\ \E http \in HttpOutcomes :
        LET eff == Body(tool, args, http) IN
        /\ calls' = Append(calls, CallEntry(eff, http))
        /\ requests' = requests \o eff.requests
        /\ result' = [raised |-> eff.kind = "raise", value |-> eff.value]
    /\ pc' = "done"
    /\ UNCHANGED <<store_vars, aux_vars, tool, args, retries, last_error, sleeps>>

\* the caller has the outcome; the next invocation starts afresh
ToolReturn ==
    /\ pc = "done"
    /\ pc' = "idle"
    /\ UNCHANGED <<store_vars, aux_vars, tool, args, retries, last_error, calls,
                   requests, sleeps, result>>

InvokeAny == \E t \in Tools : \E a \in ArgsFor(t) : Invoke(t, a)

ToolNext ==
    \/ InvokeAny
    \/ WrapperTry
    \/ WrapperGiveUp
    \/ WrapperFinalCall
    \/ LoaderCall
    \/ ToolReturn

\* ---- both backends side by side ------------------------------------------
\* One manager on the in-memory backend (memory_store, memory_timestamps) and
\* one on the Redis backend (redis_db), built with the same max_history and
\* ttl_hours, are given the same calls at the same times.

\* add_entry on both managers
PairAdd(session_id, query, response, model, metadata) ==
    LET entry == ConversationEntry(now, query, response, model,
                    IF metadata = None THEN EmptyDict ELSE metadata[1])
    IN  /\ adds < MaxAdds
        /\ adds' = adds + 1
        /\ memory_store' = MemoryStoreAfterAdd(session_id, entry)
        /\ memory_timestamps' = MemoryTimestampsAfterAdd(session_id)
        /\ redis_db' = RedisSetex(redis_db, RedisKey(session_id), ttl_seconds,
                            json_dumps(RedisHistoryAfterAdd(session_id, entry)))
        /\ ret' = [op |-> "add_entry", sid |-> session_id,
                   arg |-> [query |-> query, response |-> response,
                            model |-> model, metadata |-> metadata],
                   fault |-> "none", raised |-> FALSE, value |-> None]
        /\ pre_absent' = FALSE
        /\ UNCHANGED <<tool_vars, aux_vars, use_redis, max_history, ttl_seconds,
                       now, log, ttl_hit>>

\* get_history on both managers: the two returned lists
PairGetHistory(session_id, limit) ==
    /\ ret' = [op |-> "get_history", sid |-> session_id,
               arg |-> [limit |-> limit], fault |-> "none", raised |-> FALSE,
               value |-> Some([memory |-> _get_memory_history(session_id, limit),
                               redis |-> _get_redis_history(session_id, limit)])]
    /\ pre_absent' = FALSE
    /\ UNCHANGED <<tool_vars, aux_vars, use_redis, max_history, ttl_seconds,
                   memory_store, memory_timestamps, redis_db, now, log, ttl_hit,
                   adds>>

\* get_formatted_history on both managers: the two returned texts
PairGetFormatted(session_id, limit) ==
    /\ ret' = [op |-> "get_formatted_history", sid |-> session_id,
               arg |-> [limit |-> limit], fault |-> "none", raised |-> FALSE,
               value |-> Some([memory |-> FormatHistory(
                                            _get_memory_history(session_id, limit)),
                               redis |-> FormatHistory(
                                            _get_redis_history(session_id, limit))])]
    /\ pre_absent' = FALSE
    /\ UNCHANGED <<tool_vars, aux_vars, use_redis, max_history, ttl_seconds,
                   memory_store, memory_timestamps, redis_db, now, log, ttl_hit,
                   adds>>

\* clear_session on both managers
PairClear(session_id) ==
    /\ memory_store' = MemoryStoreAfterClear(session_id)
    /\ memory_timestamps' = MemoryTimestampsAfterClear(session_id)
    /\ redis_db' = RedisAfterClear(session_id)
    /\ ret' = [op |-> "clear_session", sid |-> session_id, arg |-> EmptyDict,
               fault |-> "none", raised |-> FALSE, value |-> None]
    /\ pre_absent' = FALSE
    /\ UNCHANGED <<tool_vars, aux_vars, use_redis, max_history, ttl_seconds, now,
                   log, ttl_hit, adds>>

PairNext ==
    \/ Tick
    \/ \E s \in SessionIds, x \in Exchanges :
          PairAdd(s, x.query, x.response, x.model, x.metadata)
    \/ \E s \in SessionIds, l \in Limits : PairGetHistory(s, l)
    \/ \E s \in SessionIds, l \in Limits : PairGetFormatted(s, l)
    \/ \E s \in SessionIds : PairClear(s)

\* the two callers that can run add_entry at the same time
Callers == {"c1", "c2"}

NoCall == [pc |-> "idle", sid |-> "", entry |-> EmptyDict, data |-> None]

NoManager == [pc |-> "new"]

\* run.py: the session ids uuid.uuid4() hands out, in order
CliSessionIds == <<"cli-1", "cli-2", "cli-3">>

\* EnhancedCLI.__init__
NewCli ==
    [session_id |-> CliSessionIds[1], minted |-> 1, agent |-> None,
     show_thinking |-> TRUE, model |-> "gpt-4.1", running |-> TRUE,
     built_for |-> "", queries |-> 0,
     last |-> [op |-> "__init__"]]

\* fixed_api_server before the module is imported
ServerDown == [pc |-> "down"]

AuxIdle ==
    /\ inflight = [c \in Callers |-> NoCall]
    /\ manager = NoManager
    /\ sessions = EmptyDict
    /\ cli = NewCli
    /\ server = ServerDown

\* ---- add_entry run by two callers at once ---------------------------------
\* Each caller runs add_entry one backend access at a time; inflight[c] holds
\* the caller's position, its entry and what it last read.

\* add_entry up to the backend call: the entry is built
RaceBegin(c, session_id, query, response, model, metadata) ==
    /\ inflight[c].pc = "idle"
    /\ adds < MaxAdds
    /\ adds' = adds + 1
    /\ inflight' = [inflight EXCEPT ![c] =
          [pc |-> IF use_redis THEN "get" ELSE "clean",
           sid |-> session_id,
           entry |-> ConversationEntry(now, query, response, model,
                        IF metadata = None THEN EmptyDict ELSE metadata[1]),
           data |-> None]]
    /\ UNCHANGED <<tool_vars, manager, agent_vars, use_redis, max_history, ttl_seconds,
                   memory_store, memory_timestamps, redis_db, now, ret, log,
                   ttl_hit, pre_absent>>

\* _add_redis_entry: data = self.redis_client.get(key)
RaceGet(c) ==
    /\ inflight[c].pc = "get"
    /\ inflight' = [inflight EXCEPT ![c].pc = "setex",
                                    ![c].data = RedisGet(RedisKey(inflight[c].sid))]
    /\ UNCHANGED <<store_vars, tool_vars, manager, agent_vars>>

\* _add_redis_entry: loads, append, trim and self.redis_client.setex(...)
RaceSetex(c) ==
    LET data    == inflight[c].data
        history == IF data # None THEN json_loads(data[1]) ELSE <<>>
        written == Trim(Append(history, to_dict(inflight[c].entry)), max_history)
    IN  /\ inflight[c].pc = "setex"
        /\ redis_db' = RedisSetex(redis_db, RedisKey(inflight[c].sid), ttl_seconds,
                            json_dumps(written))
        /\ inflight' = [inflight EXCEPT ![c].pc = "done"]
        /\ UNCHANGED <<tool_vars, manager, agent_vars, use_redis, max_history, ttl_seconds,
                       memory_store, memory_timestamps, now, ret, log, ttl_hit,
                       pre_absent, adds>>

\* _add_memory_entry: self._clean_old_sessions()
RaceClean(c) ==
    /\ inflight[c].pc = "clean"
    /\ memory_store' = CleanOld(memory_store)
    /\ memory_timestamps' = CleanOld(memory_timestamps)
    /\ inflight' = [inflight EXCEPT ![c].pc = "append"]
    /\ UNCHANGED <<tool_vars, manager, agent_vars, use_redis, max_history, ttl_seconds,
                   redis_db, now, ret, log, ttl_hit, pre_absent, adds>>

\* _add_memory_entry: self.memory_store[session_id].append(entry)
RaceAppend(c) ==
    /\ inflight[c].pc = "append"
    /\ memory_store' = DictSet(memory_store, inflight[c].sid,
                            Append(DictGet(memory_store, inflight[c].sid, <<>>),
                                   inflight[c].entry))
    /\ inflight' = [inflight EXCEPT ![c].pc = "stamp"]
    /\ UNCHANGED <<tool_vars, manager, agent_vars, use_redis, max_history, ttl_seconds,
                   memory_timestamps, redis_db, now, ret, log, ttl_hit,
                   pre_absent, adds>>

\* _add_memory_entry: self.memory_timestamps[session_id] = time.time()
RaceStamp(c) ==
    /\ inflight[c].pc = "stamp"
    /\ memory_timestamps' = DictSet(memory_timestamps, inflight[c].sid, now)
    /\ inflight' = [inflight EXCEPT ![c].pc = "check"]
    /\ UNCHANGED <<tool_vars, manager, agent_vars, use_redis, max_history, ttl_seconds,
                   memory_store, redis_db, now, ret, log, ttl_hit, pre_absent,
                   adds>>

\* _add_memory_entry: if len(self.memory_store[session_id]) > self.max_history
RaceTrimCheck(c) ==
    /\ inflight[c].pc = "check"
    /\ inflight' = [inflight EXCEPT ![c].pc =
          IF Len(DictGet(memory_store, inflight[c].sid, <<>>)) > max_history
          THEN "slice" ELSE "done"]
    /\ UNCHANGED <<store_vars, tool_vars, manager, agent_vars>>

\* _add_memory_entry: self.memory_store[session_id][-self.max_history:]
RaceTrimSlice(c) ==
    /\ inflight[c].pc = "slice"
    /\ inflight' = [inflight EXCEPT ![c].pc = "assign",
          ![c].data = Some(PySliceLast(DictGet(memory_store, inflight[c].sid, <<>>),
                                       max_history))]
    /\ UNCHANGED <<store_vars, tool_vars, manager, agent_vars>>

\* _add_memory_entry: self.memory_store[session_id] = <the slice>
RaceTrimAssign(c) ==
    /\ inflight[c].pc = "assign"
    /\ memory_store' = DictSet(memory_store, inflight[c].sid, inflight[c].data[1])
    /\ inflight' = [inflight EXCEPT ![c].pc = "done"]
    /\ UNCHANGED <<tool_vars, manager, agent_vars, use_redis, max_history, ttl_seconds,
                   memory_timestamps, redis_db, now, ret, log, ttl_hit,
                   pre_absent, adds>>

RaceNext ==
    \/ \E c \in Callers, s \in SessionIds, x \in Exchanges :
          RaceBegin(c, s, x.query, x.response, x.model, x.metadata)
    \/ \E c \in Callers : RaceGet(c)
    \/ \E c \in Callers : RaceSetex(c)
    \/ \E c \in Callers : RaceClean(c)
    \/ \E c \in Callers : RaceAppend(c)
    \/ \E c \in Callers : RaceStamp(c)
    \/ \E c \in Callers : RaceTrimCheck(c)
    \/ \E c \in Callers : RaceTrimSlice(c)
    \/ \E c \in Callers : RaceTrimAssign(c)

\* ---- tools/mcp_api_loader.py: APIManager -----------------------------------

\* the environment: names that are set, with their values
Environ == ("TEST_API_KEY" :> GoodKey) @@ ("EMPTY_API_KEY" :> NoKey)

\* os.getenv(name)
os_getenv(name) == IF name \in DOMAIN Environ THEN Some(Environ[name]) ELSE None

\* the options of one section as ConfigParser hands them over (values carry no
\* surrounding whitespace)
SectionConfigs ==
    {[name |-> "Test API", endpoint |-> "https://api.test.com/v1/data",
      auth |-> "TEST_API_KEY", auth_type |-> "Bearer",
      use_cases |-> "Test API for unit testing",
      description |-> "A test API configuration"],
     [name |-> "Test API", endpoint |-> "https://api.test.com/v1/data",
      auth |-> "MISSING_API_KEY", auth_type |-> "query-key"],
     [name |-> "Test API", endpoint |-> "https://api.test.com/v1/data",
      auth |-> "EMPTY_API_KEY", use_cases |-> "Test API for unit testing"],
     [name |-> "No Auth API", endpoint |-> "https://api.public.com/v1/data",
      use_cases |-> "Public API without authentication"],
     [name |-> "Test API", endpoint |-> ""],
     [name |-> "Test API", auth |-> "TEST_API_KEY"],
     [endpoint |-> "https://api.test.com/v1/data", auth |-> "MISSING_API_KEY"],
     [use_cases |-> "Test API for unit testing"]}

\* the section names of a file, in file order
SectionNames == <<"TestAPI", "NoAuthAPI", "ThirdAPI">>

\* the parsed content of a configuration file: up to MaxSections sections
McpFiles ==
    UNION {[1..n -> SectionConfigs] : n \in 0..MaxSections}

\* _load_mcp: the apis dict, as the sequence of its items
_load_mcp(exists, file) ==
    IF ~exists THEN <<>>
    ELSE [i \in 1..Len(file) |-> [api_name |-> SectionNames[i], config |-> file[i]]]

\* validate_api_config: the KeyError it raises, or None
validate_api_configEndpointOnly(name, config) ==
    IF "endpoint" \in DOMAIN config THEN None
    ELSE Some([type |-> "KeyError", api |-> name, missing_keys |-> <<"endpoint">>])

validate_api_config(name, config) ==
    LET required_keys == <<"endpoint", "name">>
        missing_keys  == SelectSeq(required_keys, LAMBDA key : key \notin DOMAIN config)
    IN  IF missing_keys # <<>>
        THEN Some([type |-> "KeyError", api |-> name, missing_keys |-> missing_keys])
        ELSE None

\* the tool dictionary _build_tools appends for a section that validates; the
\* function is the callable create_api_tool returns, given by what it captures
ToolDict(api_name, config) ==
    LET endpoint     == DictGet(config, "endpoint", "")
        auth_key_env == DictGet(config, "auth", "")
        auth_type    == DictGet(config, "auth_type", "Bearer")
        use_case     == DictGet(config, "use_cases", "API tool for " \o api_name)
        description  == DictGet(config, "description", use_case)
        api_key      == IF auth_key_env # "" THEN os_getenv(auth_key_env) ELSE None
    IN  [name |-> api_name,
         description |-> description,
         function |-> [name |-> api_name, endpoint |-> endpoint,
                       api_key |-> api_key, auth_type |-> auth_type,
                       description |-> description],
         parameters |-> [type |-> "object", properties |-> EmptyDict,
                         required |-> <<>>]]

\* the warning _build_tools logs when the credential variable is named but has
\* no value in the environment
KeyNotFound(config) ==
    /\ DictGet(config, "auth", "") # ""
    /\ ~Truthy(os_getenv(config.auth))

\* APIManager.__init__ up to the loop of _build_tools: the file is loaded
ManagerConstruct(exists, file) ==
    /\ manager.pc = "new"
    /\ manager' = [pc |-> "build", exists |-> exists,
                   apis |-> _load_mcp(exists, file), tools |-> <<>>, i |-> 1,
                   warnings |-> IF exists THEN <<>> ELSE <<"MCP file not found">>,
                   raised |-> FALSE]
    /\ UNCHANGED <<store_vars, tool_vars, inflight, agent_vars>>

\* one iteration of the loop of _build_tools
ManagerBuildOne ==
    /\ manager.pc = "build"
    /\ manager.i <= Len(manager.apis)
    /\ LET api_name == manager.apis[manager.i].api_name
           config   == manager.apis[manager.i].config
           invalid  == validate_api_config(api_name, config)
       IN  manager' =
             IF invalid # None
             THEN [manager EXCEPT !.i = @ + 1,
                       !.warnings = Append(@, "Skipping " \o api_name)]
             ELSE [manager EXCEPT !.i = @ + 1,
                       !.tools = Append(@, ToolDict(api_name, config)),
                       !.warnings = IF KeyNotFound(config)
                                    THEN Append(@, "API key not found: " \o api_name)
                                    ELSE @]
    /\ UNCHANGED <<store_vars, tool_vars, inflight, agent_vars>>

\* the loop is over: _build_tools returns and __init__ ends
ManagerBuilt ==
    /\ manager.pc = "build"
    /\ manager.i > Len(manager.apis)
    /\ manager' = [manager EXCEPT !.pc = "ready"]
    /\ UNCHANGED <<store_vars, tool_vars, inflight, agent_vars>>

ManagerNext ==
    \/ \E exists \in BOOLEAN, file \in McpFiles : ManagerConstruct(exists, file)
    \/ ManagerBuildOne
    \/ ManagerBuilt

Init == StoreInit /\ ToolIdle /\ AuxIdle

Next ==
    \/ Tick
    \/ AddMemory
    \/ AddRedis
    \/ GetHistoryCall
    \/ GetFormattedCall
    \/ ClearCall
    \/ SummaryCall

Spec == Init /\ [][Next]_vars

ToolSpec == Init /\ [][ToolNext]_vars

PairSpec == Init /\ [][PairNext]_vars

RaceSpec == Init /\ [][RaceNext]_vars

ManagerSpec == Init /\ [][ManagerNext]_vars

\* ======================= properties: conversation store =====================

\* C1: in every reachable state every session's stored history holds at most
\* max_history entries, for every configured max_history >= 0.
C1_HistoryNeverExceedsMax ==
    \A s \in SessionIds : Len(StoredHistory(s)) <= max_history

\* C1: a session holds more entries than max_history allows.
C1_Witness ==
    \E s \in SessionIds : Len(StoredHistory(s)) > max_history

\* C2: after N > max_history add_entry calls on a session, with no clear and no
\* TTL expiry, get_history returns exactly the max_history most recent entries
\* in insertion order.
C2_KeepsMostRecent ==
    \A s \in SessionIds :
        (~ttl_hit[s] /\ ~Lapsed(s) /\ Len(log[s]) > max_history)
            => GetHistory(s, None) = LastN(log[s], max_history)

\* C2: more entries were added than max_history and more than max_history are
\* returned.
C2_Witness ==
    \E s \in SessionIds :
        /\ ~ttl_hit[s] /\ ~Lapsed(s) /\ Len(log[s]) > max_history
        /\ Len(GetHistory(s, None)) > max_history

\* C9: no ConversationManager operation propagates a Redis exception: on a
\* backend failure the reads return an empty result and add_entry returns
\* normally with the write dropped.
C9_BackendFailureAbsorbed ==
    ret.fault # "none" =>
        /\ ~ret.raised
        /\ ret.op = "get_history" => ret.value = Some(<<>>)
        /\ ret.op = "get_formatted_history" => ret.value = Some(<<>>)

\* C9: a Redis call failed during add_entry and the exception reached the caller.
C9_Witness ==
    ret.op = "add_entry" /\ ret.fault # "none" /\ ret.raised

Decorated == tool \in {"func", "weather_api", "_make_fmp_request"}

\* the HTTP call of this call of the body failed
Failed(call) ==
    \/ call.kind \in {"Timeout", "ConnectionError", "RequestException", "Exception"}
    \/ call.kind = "response" /\ call.status_code >= 400

AllTimeouts == calls # <<>> /\ \A i \in DOMAIN calls : calls[i].kind = "Timeout"

\* the credential passes validate_api_key
KeyUsable(key) == key # None /\ key[1].len >= MIN_KEY_LENGTH

\* C3: when every attempt of the wrapped call raises a timeout, a tool
\* decorated with with_retry(max_retries=m) has called the wrapped function
\* exactly m + 1 times when it finishes, and it returns a result whose status
\* is "error".
C3_TimeoutsMakeMaxRetriesPlusOneCalls ==
    (pc = "done" /\ Decorated /\ AllTimeouts)
        => /\ Len(calls) = args.max_retries + 1
           /\ ~result.raised
           /\ result.value.status = "error"

C3_Witness ==
    /\ pc = "done" /\ tool = "weather_api" /\ AllTimeouts
    /\ Len(calls) = args.max_retries
    /\ ~result.raised
    /\ result.value.status = "error"

\* C4: no invocation raises to its caller: whenever the HTTP call of the last
\* attempt failed (timeout, connection error, HTTP error status, any other
\* exception), for every max_retries >= 0, the decorated tool or the callable
\* built by create_api_tool returns a dict that contains an "error" key.
C4_NoInvocationRaises ==
    (pc = "done" /\ calls # <<>> /\ Failed(calls[Len(calls)]))
        => /\ ~result.raised
           /\ "error" \in DOMAIN result.value

C4_Witness ==
    /\ pc = "done" /\ Decorated /\ args.max_retries = 0
    /\ Len(calls) = 1 /\ calls[1].kind = "Timeout"
    /\ result.raised

\* C5: when the HTTP response to an invocation has status 404, the tool has
\* issued exactly one request, has not slept, and returns a result with status
\* "error" that contains status_code 404.
C5_NotFoundIsNotRetried ==
    (pc = "done" /\ calls # <<>> /\ calls[1].kind = "response"
        /\ calls[1].status_code = 404)
        => /\ Len(requests) = 1
           /\ sleeps = <<>>
           /\ ~result.raised
           /\ "status" \in DOMAIN result.value
           /\ result.value.status = "error"
           /\ "status_code" \in DOMAIN result.value
           /\ result.value.status_code = Some(404)

C5_Witness ==
    /\ pc = "done" /\ tool = "create_api_tool"
    /\ Len(calls) = 1 /\ calls[1].kind = "response" /\ calls[1].status_code = 404
    /\ Len(requests) = 1
    /\ "status_code" \notin DOMAIN result.value

\* C6: when the credential of a tool that authenticates is missing, empty or
\* too short at call time, the invocation issues no HTTP request and returns a
\* result with status "error" whose error text names the API key.
C6_BadCredentialMakesNoRequest ==
    (pc = "done"
        /\ tool \in {"weather_api", "_make_fmp_request", "create_api_tool"}
        /\ (tool = "create_api_tool" => Lower(args.auth_type) # "none")
        /\ ~KeyUsable(args.api_key))
        => /\ requests = <<>>
           /\ ~result.raised
           /\ "status" \in DOMAIN result.value
           /\ result.value.status = "error"
           /\ "error" \in DOMAIN result.value
           /\ Contains(result.value.error, "API key")

C6_Witness ==
    /\ pc = "done" /\ tool = "create_api_tool"
    /\ Lower(args.auth_type) = "bearer"
    /\ args.api_key = None
    /\ Len(requests) = 1
    /\ requests[1].headers = EmptyDict

\* the last call of weather_api got a 2xx answer whose JSON body is a dict
\* containing location and current
WeatherAnswered ==
    /\ calls # <<>>
    /\ calls[Len(calls)].kind = "response"
    /\ ResponseOk(calls[Len(calls)])
    /\ calls[Len(calls)].body.json # None
    /\ JsonHas(calls[Len(calls)].body.json[1], "location")
    /\ JsonHas(calls[Len(calls)].body.json[1], "current")

WeatherBody == calls[Len(calls)].body.json[1].d

\* C7: with a credential configured for the weather tool and a 2xx answer
\* whose JSON body contains location and current, the invocation returns a
\* result with no "error" key, status "success", and a top-level "display"
\* that contains the location name and the condition text.
C7_WeatherSuccessHasDisplay ==
    (pc = "done" /\ tool = "weather_api" /\ KeyUsable(args.api_key)
        /\ WeatherAnswered)
        => /\ ~result.raised
           /\ "error" \notin DOMAIN result.value
           /\ "status" \in DOMAIN result.value
           /\ result.value.status = "success"
           /\ "display" \in DOMAIN result.value
           /\ Contains(result.value.display, WeatherBody.location.name)
           /\ Contains(result.value.display, WeatherBody.current.condition.text)

C7_Witness ==
    /\ pc = "done" /\ tool = "weather_api" /\ WeatherAnswered
    /\ WeatherBody = WeatherFull
    /\ result.value.status = "success"
    /\ "display" \notin DOMAIN result.value
    /\ Contains(result.value.data.d.display, "London")
    /\ Contains(result.value.data.d.display, "Cloudy")

\* C8: every value a tool invocation returns carries a status field whose
\* value is exactly "success" or "error", for every response body and failure.
C8_StatusIsSuccessOrError ==
    (pc = "done" /\ ~result.raised)
        => /\ "status" \in DOMAIN result.value
           /\ result.value.status \in {"success", "error"}

C8_Witness ==
    /\ pc = "done" /\ ~result.raised
    /\ "status" \in DOMAIN result.value
    /\ result.value.status = "failed"

\* ---------------------------------------------------------------------------
\* Further properties of the conversation store (checked under Spec)
\* ---------------------------------------------------------------------------

\* the metadata add_entry stores for the metadata argument it is given
GivenMetadata(metadata) == IF metadata = None THEN EmptyDict ELSE metadata[1]

\* C11: round trip: immediately after add_entry(session, query, response,
\* model, metadata) succeeds, the last entry get_history(session) returns has
\* the same query, response and model, and metadata equal to the one given
\* (an empty mapping when none was given), on both backends.
C11_AddThenGetRoundTrip ==
    (ret.op = "add_entry" /\ ~ret.raised)
        => LET history == GetHistory(ret.sid, None) IN
           /\ Len(history) > 0
           /\ history[Len(history)].query = ret.arg.query
           /\ history[Len(history)].response = ret.arg.response
           /\ history[Len(history)].model = ret.arg.model
           /\ history[Len(history)].metadata = GivenMetadata(ret.arg.metadata)

C11_Witness ==
    /\ ret.op = "add_entry" /\ ~ret.raised /\ use_redis
    /\ ret.arg.metadata # None
    /\ DOMAIN ret.arg.metadata[1] # {}
    /\ LET history == GetHistory(ret.sid, None) IN
        /\ Len(history) > 0
        /\ history[Len(history)].metadata = ret.arg.metadata[1]
        /\ history[Len(history)].response.len > 200

\* a line of the formatted history is a User line / an Assistant line
IsUserLine(line) == Len(line) = 4 /\ line[3] = "] User: "
IsAssistantLine(line) == Len(line) = 5 /\ line[3] = "] Assistant: "

\* C12: get_formatted_history returns the empty string for a session with no
\* entries; otherwise it returns exactly one User line and one Assistant line
\* per entry, in the order of the entries, and the response text on each
\* Assistant line is the entry's response cut to 200 characters.
C12_FormattedHistoryShape ==
    (ret.op = "get_formatted_history" /\ ~ret.raised)
        => LET history == GetHistory(ret.sid, ret.arg.limit)
               lines   == ret.value[1]
           IN
           /\ GetHistory(ret.sid, None) = <<>> => lines = <<>>
           /\ Cardinality({i \in DOMAIN lines : IsUserLine(lines[i])})
                = Len(history)
           /\ Cardinality({i \in DOMAIN lines : IsAssistantLine(lines[i])})
                = Len(history)
           /\ \A i \in DOMAIN history :
                /\ IsUserLine(lines[3 * i - 2])
                /\ lines[3 * i - 2][4] = history[i].query
                /\ IsAssistantLine(lines[3 * i - 1])
                /\ lines[3 * i - 1][4].id = history[i].response.id
                /\ lines[3 * i - 1][4].len = Min(history[i].response.len, 200)

C12_Witness ==
    /\ ret.op = "get_formatted_history" /\ ~ret.raised
    /\ LET history == GetHistory(ret.sid, ret.arg.limit) IN
        /\ Len(history) = 2
        /\ history[1].query # history[2].query
        /\ history[2].response.len > 200
        /\ ret.value[1][5][4].len = 200

\* C13: get_history(session, limit) returns the last min(limit, n) of the
\* session's n stored entries in order (none for limit 0), all n entries when
\* no limit is given, and an empty sequence for an unknown session.
C13_LimitGivesLastEntries ==
    (ret.op = "get_history" /\ ~ret.raised)
        => LET all == GetHistory(ret.sid, None) IN
           /\ ret.arg.limit = None => ret.value[1] = all
           /\ ret.arg.limit # None
                => ret.value[1] = LastN(all, ret.arg.limit[1])
           /\ SessionAbsent(ret.sid) => ret.value[1] = <<>>

C13_Witness ==
    /\ ret.op = "get_history" /\ ~ret.raised
    /\ ret.arg.limit = Some(0)
    /\ Len(ret.value[1]) > 0

\* the reads of the store
ReadOps == {"get_history", "get_formatted_history", "get_session_summary"}

\* C14: get_history, get_formatted_history and get_session_summary are
\* read-only: for known and unknown session ids such a call leaves the set of
\* stored sessions, every session's entries and every last-activity timestamp
\* as they were (reading an unknown id creates no session).
C14_ReadsChangeNothing ==
    [][(ret'.op \in ReadOps /\ ~ret'.raised)
        => /\ memory_store' = memory_store
           /\ memory_timestamps' = memory_timestamps
           /\ redis_db' = redis_db
           /\ \A s \in SessionIds :
                /\ SessionAbsent(s)' = SessionAbsent(s)
                /\ StoredHistory(s)' = StoredHistory(s)]_vars

C14_Witness ==
    /\ ret.op = "get_session_summary" /\ ~ret.raised
    /\ SessionAbsent(ret.sid)
    /\ ret.value[1].total_exchanges = 0
    /\ \E s \in SessionIds : ~SessionAbsent(s)

\* C15: on the in-memory backend expired sessions are reclaimed only by a
\* write: right after an add_entry at time t no session other than the one
\* written has a last-activity timestamp older than t - ttl_seconds, and a read
\* removes no session for its age, so an expired session is still read in full.
C15_ExpiredSessionsGoOnlyOnWrite ==
    [][~use_redis
        => /\ (ret'.op = "add_entry")
                => \A s \in DOMAIN memory_timestamps' \ {ret'.sid} :
                      /\ memory_timestamps'[s] >= now' - ttl_seconds
                      /\ s \in DOMAIN memory_store'
           /\ (ret'.op = "add_entry")
                => \A s \in DOMAIN memory_store' : s \in DOMAIN memory_timestamps'
           /\ (ret'.op \in ReadOps)
                => \A s \in ExpiredSessions :
                      /\ s \in DOMAIN memory_store'
                      /\ memory_store'[s] = memory_store[s]
                      /\ memory_timestamps'[s] = memory_timestamps[s]
                      /\ (ret'.op = "get_history" /\ ret'.sid = s
                            /\ ret'.arg.limit = None)
                           => ret'.value = Some(memory_store[s])]_vars

C15_Witness ==
    /\ ~use_redis /\ ret.op = "add_entry"
    /\ \E s \in SessionIds \ {ret.sid} :
        /\ ttl_hit[s]
        /\ s \notin DOMAIN memory_store
        /\ s \notin DOMAIN memory_timestamps

\* ---------------------------------------------------------------------------
\* The two backends compared (checked under PairSpec)
\* ---------------------------------------------------------------------------

\* C16: given the same sequence of add_entry, get_history(limit),
\* get_formatted_history and clear_session calls, the in-memory backend and
\* the Redis backend return identical get_history and get_formatted_history
\* results after every step, also when a session stays idle beyond the TTL.
C16_BackendsAgree ==
    (ret.op \in {"get_history", "get_formatted_history"})
        => ret.value[1].memory = ret.value[1].redis

C16_Witness ==
    /\ ret.op = "get_history"
    /\ ret.arg.limit = None
    /\ Len(ret.value[1].memory) > 0
    /\ ret.value[1].redis = <<>>
    /\ now - memory_timestamps[ret.sid] > ttl_seconds

\* ---------------------------------------------------------------------------
\* add_entry run concurrently (checked under RaceSpec)
\* ---------------------------------------------------------------------------

\* the two callers have both returned from add_entry on the same session, and
\* the cap leaves room for both entries
BothAdded ==
    /\ \A c \in Callers : inflight[c].pc = "done"
    /\ inflight["c1"].sid = inflight["c2"].sid
    /\ max_history >= 2

\* C17: when two add_entry calls for the same session run concurrently, in
\* any interleaving of their backend reads and writes and with the history
\* below max_history, both entries are in the session's history afterwards.
C17_NoLostUpdate ==
    BothAdded
        => LET history == GetHistory(inflight["c1"].sid, None)
           IN  \E i, j \in DOMAIN history :
                  /\ i # j
                  /\ history[i] = Stored(inflight["c1"].entry)
                  /\ history[j] = Stored(inflight["c2"].entry)

C17_Witness ==
    /\ BothAdded
    /\ use_redis
    /\ inflight["c1"].entry.query # inflight["c2"].entry.query
    /\ GetHistory(inflight["c1"].sid, None) = <<Stored(inflight["c2"].entry)>>

\* ---------------------------------------------------------------------------
\* Further properties of the tools (checked under ToolSpec)
\* ---------------------------------------------------------------------------

QuerySchemes == {"query-key", "query-param-apikey", "query-param-api_key"}

\* the query parameter a query-key scheme uses
SchemeParam(auth) ==
    CASE auth = "query-key" -> "key"
      [] auth = "query-param-apikey" -> "apikey"
      [] auth = "query-param-api_key" -> "api_key"

\* header h with value v carries the credential
HeaderCarries(h, v, credential) ==
    CASE h = "Authorization" -> v[3] = credential
      [] h \in {"X-API-Key", "X-RapidAPI-Key"} -> v = credential
      [] OTHER -> FALSE

\* request r has the credential under the query parameter name and in no header
InQueryOnly(r, name, credential) ==
    /\ name \in DOMAIN r.params
    /\ r.params[name] = credential
    /\ \A h \in DOMAIN r.headers : ~HeaderCarries(h, r.headers[h], credential)

\* C18: a tool created with a query-key scheme (query-key, query-param-apikey,
\* query-param-api_key) and a credential sends the credential in every request
\* as the query parameter of the scheme (key, apikey, api_key) and in no
\* header, whatever query parameters the caller passes; weather_api does the
\* same with the parameter key.
C18_QueryKeyInQueryOnly ==
    /\ (tool \in Undecorated /\ Lower(args.auth_type) \in QuerySchemes
          /\ Truthy(args.api_key))
        => /\ \A i \in DOMAIN requests :
                 InQueryOnly(requests[i], SchemeParam(Lower(args.auth_type)),
                             args.api_key[1])
           /\ pc = "done" => Len(requests) = 1
    /\ (tool = "weather_api")
        => \A i \in DOMAIN requests :
              InQueryOnly(requests[i], "key", EnvGet(args.api_key))

C18_Witness ==
    /\ pc = "done"
    /\ tool \in Undecorated
    /\ Lower(args.auth_type) = "query-param-apikey"
    /\ Truthy(args.api_key)
    /\ "apikey" \in DOMAIN args.kwargs
    /\ Len(requests) = 1
    /\ requests[1].params.apikey = args.api_key[1]
    /\ requests[1].params.key = CallersValue

\* weather_api has returned from a call with an empty or whitespace-only location
BlankLocationDone ==
    /\ tool = "weather_api"
    /\ pc = "done"
    /\ Strip(args.location) = <<>>

\* the error text names the location parameter
NamesLocation(text) == Contains(text, "Location parameter cannot be empty")

\* C19: weather_api called with an empty or whitespace-only location returns a
\* result with status "error" whose error text names the location parameter,
\* and issues no HTTP request.
C19_BlankLocationRejected ==
    BlankLocationDone
        => /\ ~result.raised
           /\ result.value.status = "error"
           /\ NamesLocation(result.value.error)
           /\ requests = <<>>

C19_Witness ==
    /\ BlankLocationDone
    /\ args.api_key = None
    /\ args.location = <<" ">>
    /\ ~NamesLocation(result.value.error)
    /\ Contains(result.value.error, "API key")

\* ---------------------------------------------------------------------------
\* Properties of APIManager (checked under ManagerSpec)
\* ---------------------------------------------------------------------------

\* the section has both required keys
HasBothKeys(section) ==
    "endpoint" \in DOMAIN section.config /\ "name" \in DOMAIN section.config

\* C20: APIManager builds exactly one tool for every configuration section
\* that has both the endpoint and name keys, whether or not the section's
\* credential environment variable is set; a section with a required key
\* missing yields no tool and does not stop the other sections from being
\* built; a missing configuration file yields zero apis and zero tools without
\* raising.
C20_OneToolPerValidSection ==
    (manager.pc = "ready")
        => LET valid == SelectSeq(manager.apis, HasBothKeys) IN
           /\ ~manager.raised
           /\ Len(manager.tools) = Len(valid)
           /\ \A k \in DOMAIN valid : manager.tools[k].name = valid[k].api_name
           /\ ~manager.exists => manager.apis = <<>> /\ manager.tools = <<>>

C20_Witness ==
    /\ manager.pc = "ready"
    /\ Len(manager.apis) = 2
    /\ ~HasBothKeys(manager.apis[1])
    /\ HasBothKeys(manager.apis[2])
    /\ KeyNotFound(manager.apis[2].config)
    /\ Len(manager.tools) = 1
    /\ manager.tools[1].name = manager.apis[2].api_name
    /\ manager.tools[1].function.api_key = None

\* ---------------------------------------------------------------------------
\* Further properties of with_retry and of the loaded tools (checked under
\* ToolSpec)
\* ---------------------------------------------------------------------------

\* C21: the backoff delay slept after failed attempt number a (attempts
\* numbered from 0) is retry_delay * 2^a seconds, for every a below the retry
\* cap.
C21_BackoffDoublesFromRetryDelay ==
    Decorated
        => \A i \in DOMAIN sleeps : sleeps[i] = args.retry_delay * (2 ^ (i - 1))

C21_Witness ==
    /\ Decorated
    /\ Len(sleeps) = 2
    /\ calls[1].kind = "Timeout"
    /\ sleeps[1] = args.retry_delay * 2
    /\ sleeps[2] = args.retry_delay * 4

\* the outcomes of the wrapped call the wrapper is specified for: a timeout, a
\* connection error, another request error, or a returned value
SpecifiedOutcome(call) ==
    \/ call.kind \in {"Timeout", "ConnectionError", "RequestException"}
    \/ call.kind = "response" /\ (ResponseOk(call) => call.body.json # None)

\* this call of the wrapped function returned a value
Returned(call) == call.kind = "response" /\ ResponseOk(call)

\* C22: for every max_retries >= 0 and every sequence of outcomes of the
\* wrapped call (timeout, connection error, other request error, returned
\* value), a with_retry invocation returns after at most max_retries + 1 calls
\* of the wrapped function, and the first call that returns a value ends the
\* invocation with exactly that value and no further call or sleep.
C22_BoundedCallsThenReturn ==
    (tool = "func" /\ \A i \in DOMAIN calls : SpecifiedOutcome(calls[i]))
        => /\ Len(calls) <= args.max_retries + 1
           /\ retries <= args.max_retries
           /\ pc # "loop" => ~result.raised
           /\ \A i \in DOMAIN calls :
                Returned(calls[i])
                    => /\ i = Len(calls)
                       /\ pc # "loop"
                       /\ result.value = func(args, calls[i]).value
                       /\ Len(sleeps) = i - 1

C22_Witness ==
    /\ tool = "func" /\ pc = "done"
    /\ args.max_retries = 0
    /\ Len(calls) = 1 /\ calls[1].kind = "ConnectionError"
    /\ sleeps = <<>>
    /\ result.raised

\* C23: when the wrapped function lets a non-transient requests exception that
\* carries an HTTP 4xx/5xx response propagate, the wrapper returns after that
\* single attempt a result with status "error" whose status_code is the
\* response's HTTP status code and whose response field holds the error body.
C23_HttpErrorKeepsStatusCode ==
    (tool = "func" /\ pc = "done" /\ Len(calls) >= 1
        /\ calls[1].kind = "response" /\ ~ResponseOk(calls[1]))
        => /\ Len(calls) = 1
           /\ sleeps = <<>>
           /\ ~result.raised
           /\ result.value.status = "error"
           /\ result.value.status_code = Some(calls[1].status_code)
           /\ result.value.response = Some(calls[1].body)

C23_Witness ==
    /\ tool = "func" /\ pc = "done"
    /\ args.max_retries > 0
    /\ Len(calls) = 1 /\ calls[1].kind = "response" /\ calls[1].status_code = 404
    /\ ~result.raised
    /\ result.value.status = "error"
    /\ result.value.status_code = None
    /\ result.value.response = None

\* the header a header scheme puts the credential in
SchemeHeader(auth) ==
    CASE auth = "bearer" -> "Authorization"
      [] auth = "api-key" -> "X-API-Key"
      [] auth = "x-rapidapi-key" -> "X-RapidAPI-Key"

\* query parameter p of request r is the credential
ParamCarries(r, p, credential) ==
    p \in {"key", "apikey", "api_key"} /\ r.params[p] = credential

\* C24: for a tool built by create_api_tool with a header scheme (bearer,
\* api-key, x-rapidapi-key) the credential appears only in that scheme's header
\* and the query parameters sent are exactly the caller's keyword arguments;
\* with scheme none, or any scheme outside the enumerated set, no header and no
\* query parameter carries a credential, even when one is configured.
C24_HeaderSchemesAndNone ==
    (tool \in Undecorated /\ Truthy(args.api_key))
        => \A i \in DOMAIN requests :
             LET r    == requests[i]
                 auth == Lower(args.auth_type)
             IN  /\ (auth \in {"bearer", "api-key", "x-rapidapi-key"})
                      => /\ SchemeHeader(auth) \in DOMAIN r.headers
                         /\ \A h \in DOMAIN r.headers :
                              HeaderCarries(h, r.headers[h], args.api_key[1])
                                <=> h = SchemeHeader(auth)
                         /\ r.params = args.kwargs
                 /\ (auth \notin {"bearer", "api-key", "x-rapidapi-key"}
                                    \cup QuerySchemes)
                      => /\ \A h \in DOMAIN r.headers :
                              ~HeaderCarries(h, r.headers[h], args.api_key[1])
                         /\ \A p \in DOMAIN r.params :
                              ~ParamCarries(r, p, args.api_key[1])

C24_Witness ==
    /\ tool = "create_api_tool" /\ pc = "done"
    /\ args.auth_type = "none"
    /\ Truthy(args.api_key)
    /\ Len(requests) = 1
    /\ requests[1].headers = [Authorization |-> <<"none", " ", args.api_key[1]>>]
    /\ requests[1].params = args.kwargs

\* ---------------------------------------------------------------------------
\* Invariants and frame properties of the in-memory backend (checked under
\* Spec)
\* ---------------------------------------------------------------------------

\* C26: on the in-memory backend, after any sequence of add_entry,
\* get_history, get_formatted_history, get_session_summary and clear_session
\* calls, memory_store and memory_timestamps hold exactly the same session ids,
\* and every stored session has at least one entry.
C26_StoreAndTimestampsAligned ==
    ~use_redis
        => /\ DOMAIN memory_store = DOMAIN memory_timestamps
           /\ \A s \in DOMAIN memory_store : Len(memory_store[s]) >= 1

C26_Witness ==
    /\ ~use_redis
    /\ ret.op = "clear_session"
    /\ adds = 2
    /\ DOMAIN memory_store = SessionIds \ {ret.sid}
    /\ DOMAIN memory_timestamps = SessionIds \ {ret.sid}

\* the entry add_entry builds from the arguments of the last call
EntryOf(call, t) ==
    ConversationEntry(t, call.arg.query, call.arg.response, call.arg.model,
                      GivenMetadata(call.arg.metadata))

\* C27: on the in-memory backend, add_entry to a session whose own last
\* activity is older than the TTL sweeps that session before appending, so
\* afterwards its history is exactly the one new entry.
C27_OwnExpiredSessionStartsAfresh ==
    [][(~use_redis /\ ret'.op = "add_entry"
          /\ ret'.sid \in DOMAIN memory_timestamps
          /\ now - memory_timestamps[ret'.sid] > ttl_seconds)
        => /\ memory_store'[ret'.sid] = <<EntryOf(ret', now)>>
           /\ memory_timestamps'[ret'.sid] = now]_vars

C27_Witness ==
    /\ ~use_redis
    /\ ret.op = "add_entry"
    /\ adds = 2
    /\ ttl_hit[ret.sid]
    /\ memory_store[ret.sid] = <<EntryOf(ret, now)>>
    /\ max_history = 2

\* C28: session isolation on the in-memory backend: add_entry(A, ...) leaves
\* the entries and the last-activity timestamp of every other session that is
\* not expired unchanged, and clear_session(A) leaves the entries and the
\* timestamp of every other session, expired or not, unchanged.
C28_OtherSessionsUntouched ==
    [][~use_redis
        => /\ (ret'.op = "add_entry")
                => \A b \in DOMAIN memory_timestamps \ {ret'.sid} :
                     (now - memory_timestamps[b] <= ttl_seconds)
                        => /\ b \in DOMAIN memory_store'
                           /\ b \in DOMAIN memory_timestamps'
                           /\ memory_store'[b] = memory_store[b]
                           /\ memory_timestamps'[b] = memory_timestamps[b]
           /\ (ret'.op = "clear_session")
                => /\ DOMAIN memory_store' \ {ret'.sid} = DOMAIN memory_store \ {ret'.sid}
                   /\ DOMAIN memory_timestamps' \ {ret'.sid}
                        = DOMAIN memory_timestamps \ {ret'.sid}
                   /\ \A b \in DOMAIN memory_store \ {ret'.sid} :
                        /\ memory_store'[b] = memory_store[b]
                        /\ memory_timestamps'[b] = memory_timestamps[b]]_vars

C28_Witness ==
    /\ ~use_redis
    /\ ret.op = "add_entry"
    /\ \E b \in DOMAIN memory_store \ {ret.sid} :
         /\ now - memory_timestamps[b] = ttl_seconds
         /\ Len(memory_store[b]) = 1

\* ---- agent_config.py: SessionManager -------------------------------------

MaxSessionAdds == 4

\* session["history"][-3:]
RECENT_EXCHANGES == 3

\* item['response'][:300]
CONTEXT_RESPONSE_CHARS == 300

\* the (query, response) pairs add_to_session is called with
SessionExchanges ==
    {[query |-> "Q1", response |-> [id |-> "A1", len |-> 2]],
     [query |-> "Q2", response |-> [id |-> "A3", len |-> 301]]}

\* the dict get_session creates; "" is the join of no lines
NewSession(t) ==
    [history |-> <<>>, context |-> <<>>, created_at |-> Isoformat(t)]

\* self.sessions after get_session(session_id)
SessionsAfterGet(d, session_id, t) ==
    IF session_id \in DOMAIN d THEN d ELSE DictSet(d, session_id, NewSession(t))

RecentItemsAll(history) == history

RecentItems(history) == PySliceLast(history, RECENT_EXCHANGES)

\* the lines "\n".join puts together: f"Q: {query}" and f"A: {response[:300]}..."
RecentContext(history) ==
    LET items == RecentItems(history)
    IN  [i \in 1..(2 * Len(items)) |->
            IF i % 2 = 1
            THEN <<"Q: ", items[(i + 1) \div 2].query>>
            ELSE <<"A: ",
                   PyPrefix(items[i \div 2].response, CONTEXT_RESPONSE_CHARS),
                   "...">>]

\* self.sessions after add_to_session(session_id, query, response)
SessionsAfterAdd(d, session_id, query, response, t) ==
    LET got     == SessionsAfterGet(d, session_id, t)
        history == Append(got[session_id].history,
                          [query |-> query, response |-> response,
                           timestamp |-> Isoformat(t)])
    IN  DictSet(got, session_id,
                [got[session_id] EXCEPT !.history = history,
                                        !.context = RecentContext(history)])

\* session.get("context", "") of get_session_context
SessionContext(d, session_id, t) ==
    SessionsAfterGet(d, session_id, t)[session_id].context

get_session(session_id) ==
    /\ sessions' = SessionsAfterGet(sessions, session_id, now)
    /\ ret' = [op |-> "get_session", sid |-> session_id, arg |-> EmptyDict,
               fault |-> "none", raised |-> FALSE,
               value |-> Some(sessions'[session_id])]
    /\ UNCHANGED <<tool_vars, inflight, manager, cli, server, use_redis,
                   max_history, ttl_seconds, memory_store, memory_timestamps,
                   redis_db, now, log, ttl_hit, pre_absent, adds>>

\* log keeps the add_to_session calls made for each id
add_to_session(session_id, query, response) ==
    /\ Len(log[session_id]) < MaxSessionAdds
    /\ sessions' = SessionsAfterAdd(sessions, session_id, query, response, now)
    /\ log' = [log EXCEPT ![session_id] =
                  Append(@, [query |-> query, response |-> response])]
    /\ ret' = [op |-> "add_to_session", sid |-> session_id,
               arg |-> [query |-> query, response |-> response],
               fault |-> "none", raised |-> FALSE, value |-> None]
    /\ UNCHANGED <<tool_vars, inflight, manager, cli, server, use_redis,
                   max_history, ttl_seconds, memory_store, memory_timestamps,
                   redis_db, now, ttl_hit, pre_absent, adds>>

get_session_context(session_id) ==
    /\ sessions' = SessionsAfterGet(sessions, session_id, now)
    /\ ret' = [op |-> "get_session_context", sid |-> session_id,
               arg |-> EmptyDict, fault |-> "none", raised |-> FALSE,
               value |-> Some(SessionContext(sessions, session_id, now))]
    /\ UNCHANGED <<tool_vars, inflight, manager, cli, server, use_redis,
                   max_history, ttl_seconds, memory_store, memory_timestamps,
                   redis_db, now, log, ttl_hit, pre_absent, adds>>

SessionNext ==
    \/ \E s \in SessionIds : get_session(s)
    \/ \E s \in SessionIds, x \in SessionExchanges :
          add_to_session(s, x.query, x.response)
    \/ \E s \in SessionIds : get_session_context(s)

SessionSpec == Init /\ [][SessionNext]_vars

\* C30: after any sequence of SessionManager calls, a session's history is as
\* long as the number of add_to_session calls made for its id, its last item
\* holds the most recent call's query, and its context is the Q:/A: lines of
\* the last min(3, n) calls in order, each response cut to 300 characters
\* (and followed by the "..." the f-string appends).
C30_HistoryUntrimmedContextLastThree ==
    \A s \in SessionIds :
        /\ s \notin DOMAIN sessions => log[s] = <<>>
        /\ s \in DOMAIN sessions =>
              LET h   == sessions[s].history
                  n   == Len(log[s])
                  k   == IF n < 3 THEN n ELSE 3
                  ctx == sessions[s].context
              IN  /\ Len(h) = n
                  /\ n > 0 => h[n].query = log[s][n].query
                  /\ Len(ctx) = 2 * k
                  /\ \A j \in 1..k :
                        LET c == log[s][n - k + j]
                        IN  /\ ctx[2 * j - 1] = <<"Q: ", c.query>>
                            /\ ctx[2 * j] =
                                 <<"A: ",
                                   [id |-> c.response.id,
                                    len |-> IF c.response.len < 300
                                            THEN c.response.len ELSE 300],
                                   "...">>

\* a session with four exchanges whose first is outside the context and
\* whose last response was longer than 300 characters
C30_Witness ==
    /\ "s1" \in DOMAIN sessions
    /\ Len(sessions["s1"].history) = 4
    /\ Len(sessions["s1"].context) = 6
    /\ sessions["s1"].history[1].query = "Q1"
    /\ sessions["s1"].history[2].query = "Q2"
    /\ sessions["s1"].history[4].response.len = 301
    /\ ret.op = "get_session_context"

\* ---- run.py: EnhancedCLI ---------------------------------------------------

MaxCliQueries == 3

\* what the user types at the prompt, and at "Select model (1-4): "
CliInputs == {"/help", "/thinking", "/model", "/session", "/clear", "/CLEAR",
              "/quit", "/exit", "Q1", "Q2"}
ModelChoices == {"1", "2", "9"}

\* how Runner.run ends: an exception, or a result with a final_output
RunnerOutcomes ==
    {[raised |-> TRUE, response |-> Text("", 0)],
     [raised |-> FALSE, response |-> Text("A1", 2)]}

\* user_input.lower().strip() on the inputs above
CliLower(s) == IF s = "/CLEAR" THEN "/clear" ELSE s

CliCommands == {"/help", "/thinking", "/model", "/session", "/clear",
                "/quit", "/exit"}

\* models = {"1": "gpt-4.1", "2": "gpt-4.1-mini", "3": "o3", "4": "o3-mini"}
CliModels == [k \in {"1", "2", "3", "4"} |->
                 CASE k = "1" -> "gpt-4.1" [] k = "2" -> "gpt-4.1-mini"
                   [] k = "3" -> "o3" [] OTHER -> "o3-mini"]

\* agent_config.get_agent: the agent's model and the conversation block of
\* its instructions, present when session_context is a non-empty string
get_agent(model, session_context) ==
    [model |-> model,
     conversation |-> IF session_context # <<>> THEN Some(session_context)
                      ELSE None]

\* one prompt answered by a command; built_for (history) is the session id
\* whose context the current agent was built from
handle_command(user_input, choice) ==
    LET command == CliLower(user_input)
        last    == [op |-> command]
    IN  /\ cli.running
        /\ command \in CliCommands
        /\ command = "/clear" => cli.minted < Len(CliSessionIds)
        /\ cli' =
             CASE command = "/thinking" ->
                    [cli EXCEPT !.show_thinking = ~cli.show_thinking,
                                !.last = last]
               [] command = "/model" /\ choice \in DOMAIN CliModels ->
                    [cli EXCEPT !.model = CliModels[choice], !.agent = None,
                                !.last = last]
               [] command = "/clear" ->
                    [cli EXCEPT !.session_id = CliSessionIds[cli.minted + 1],
                                !.minted = cli.minted + 1, !.last = last]
               [] command \in {"/quit", "/exit"} ->
                    [cli EXCEPT !.running = FALSE, !.last = last]
               [] OTHER -> [cli EXCEPT !.last = last]
        /\ sessions' =
             CASE command = "/session" ->
                    SessionsAfterGet(sessions, cli.session_id, now)
               [] command = "/clear" -> DictPop(sessions, cli.session_id)
               [] OTHER -> sessions
        /\ UNCHANGED <<store_vars, tool_vars, inflight, manager, server>>

\* one prompt answered by process_query
process_query(query, outcome) ==
    LET sid      == cli.session_id
        building == cli.agent = None
        got      == IF building THEN SessionsAfterGet(sessions, sid, now)
                    ELSE sessions
        agent    == IF building
                    THEN get_agent(cli.model, SessionContext(sessions, sid, now))
                    ELSE cli.agent[1]
        built    == IF building THEN sid ELSE cli.built_for
    IN  /\ cli.running
        /\ CliLower(query) \notin CliCommands
        /\ cli.queries < MaxCliQueries
        /\ sessions' = IF outcome.raised THEN got
                       ELSE SessionsAfterAdd(got, sid, query, outcome.response,
                                             now)
        /\ cli' = [cli EXCEPT !.agent = Some(agent), !.built_for = built,
                              !.queries = cli.queries + 1,
                              !.last = [op |-> "process_query",
                                        session_id |-> sid, query |-> query,
                                        agent |-> agent, built_for |-> built,
                                        raised |-> outcome.raised]]
        /\ UNCHANGED <<store_vars, tool_vars, inflight, manager, server>>

CliNext ==
    \/ \E u \in CliInputs, k \in ModelChoices : handle_command(u, k)
    \/ \E u \in CliInputs, o \in RunnerOutcomes : process_query(u, o)

CliSpec == Init /\ [][CliNext]_vars

\* C29: in EnhancedCLI, whatever queries and commands came before, the agent
\* used for a query issued after /clear carries no conversation context from
\* a cleared session: a conversation block in its instructions was built from
\* the session the query runs in.
C29_AgentAfterClearHasNoOldContext ==
    (cli.last.op = "process_query" /\ cli.minted > 1
        /\ cli.last.agent.conversation # None)
    => cli.last.built_for = cli.last.session_id

\* a query run in the second session by an agent whose instructions hold the
\* first session's exchange
C29_Witness ==
    /\ cli.last.op = "process_query"
    /\ cli.last.session_id = CliSessionIds[2]
    /\ cli.last.built_for = CliSessionIds[1]
    /\ CliSessionIds[1] \notin DOMAIN sessions
    /\ cli.last.agent.conversation # None
    /\ cli.last.agent.conversation[1][1] = <<"Q: ", "Q1">>

\* ---- fixed_api_server.py: /api/research -----------------------------------

\* ConversationManager() as get_conversation_manager builds it
DEFAULT_MAX_HISTORY == 10
DEFAULT_TTL_HOURS == 24

\* get_formatted_history(session_id, limit=5)
CONTEXT_LIMIT == 5

\* request.sessionId as the client sends it
RequestSessionIds == {None, Some(""), Some("s1")}

\* generate_session_id() for the request of caller c
generate_session_id(c) == "session_" \o c

\* the RunResult of Runner.run, or the exception it raises; a result may
\* have no `messages` attribute at all, and a message content may be empty
RunResults ==
    {[raised |-> TRUE, has_messages |-> FALSE, messages |-> <<>>],
     [raised |-> FALSE, has_messages |-> FALSE, messages |-> <<>>],
     [raised |-> FALSE, has_messages |-> TRUE, messages |-> <<>>],
     [raised |-> FALSE, has_messages |-> TRUE, messages |-> <<Text("A1", 2)>>],
     [raised |-> FALSE, has_messages |-> TRUE,
      messages |-> <<Text("A1", 2), Text("", 0), Text("A2", 201)>>]}

NoResearch == [pc |-> "idle"]

\* the module-level try/except around get_conversation_manager(); the
\* ConversationManager picks Redis when its ping succeeds
ServerStart(manager_ok, redis_ok) ==
    /\ server.pc = "down"
    /\ server' = [pc |-> "up", conversation_manager |-> manager_ok,
                  req |-> [c \in Callers |-> NoResearch]]
    /\ use_redis' = (manager_ok /\ redis_ok)
    /\ max_history' = DEFAULT_MAX_HISTORY
    /\ ttl_seconds' = DEFAULT_TTL_HOURS * SecondsPerHour
    /\ UNCHANGED <<tool_vars, inflight, manager, sessions, cli, memory_store,
                   memory_timestamps, redis_db, now, ret, log, ttl_hit,
                   pre_absent, adds>>

\* conversation_context + request.query
FullQuery(history, query) ==
    [context |-> IF history # <<>> THEN Some(history) ELSE None,
     query |-> query]

\* research() up to the await of Runner.run inside generate();
\* read_fail: get_formatted_history raises (Redis)
ResearchBegin(c, sessionId, query, model, read_fail) ==
    LET session_id == IF sessionId # None /\ sessionId[1] # ""
                      THEN sessionId[1] ELSE generate_session_id(c)
        reads      == server.conversation_manager
        history    == IF reads /\ ~read_fail
                      THEN FormatHistory(GetHistory(session_id,
                                                    Some(CONTEXT_LIMIT)))
                      ELSE <<>>
    IN  /\ server.pc = "up"
        /\ server.req[c].pc = "idle"
        /\ read_fail => (reads /\ use_redis)
        /\ memory_store' = IF reads /\ ~read_fail
                           THEN MemoryStoreAfterRead(session_id)
                           ELSE memory_store
        /\ sessions' = SessionsAfterGet(sessions, session_id, now)
        /\ server' = [server EXCEPT !.req[c] =
                         [pc |-> "running", session_id |-> session_id,
                          query |-> query, model |-> model,
                          agent |-> get_agent(model, <<>>),
                          full_query |-> FullQuery(history, query)]]
        /\ UNCHANGED <<tool_vars, inflight, manager, cli, use_redis,
                       max_history, ttl_seconds, memory_timestamps, redis_db,
                       now, ret, log, ttl_hit, pre_absent, adds>>

\* full_response += message.content for every message with a content
RECURSIVE JoinContents(_)
JoinContents(messages) ==
    IF messages = <<>> THEN Text("", 0)
    ELSE LET rest == JoinContents(Tail(messages))
         IN  Text(Head(messages).id \o rest.id, Head(messages).len + rest.len)

FullResponse(run) ==
    IF run.has_messages THEN JoinContents(run.messages) ELSE Text("", 0)

\* `conversation_manager and session_id and full_response`
ShouldSave(session_id, full_response) ==
    server.conversation_manager /\ session_id # "" /\ full_response.len > 0

\* generate() from the return of Runner.run to its last yield;
\* write_fail: add_entry raises (Redis), which the handler logs and swallows
ResearchFinish(c, run, write_fail) ==
    LET req           == server.req[c]
        full_response == FullResponse(run)
        entry == ConversationEntry(now, req.query, full_response, req.model,
                    [tools_called |-> <<>>, thinking_steps |-> <<>>])
        saves == ~run.raised /\ ShouldSave(req.session_id, full_response)
    IN  /\ server.pc = "up"
        /\ req.pc = "running"
        /\ write_fail => (saves /\ use_redis)
        /\ IF saves /\ ~write_fail
           THEN IF use_redis
                THEN /\ redis_db' =
                          RedisSetex(redis_db, RedisKey(req.session_id),
                             ttl_seconds,
                             json_dumps(RedisHistoryAfterAdd(req.session_id,
                                                             entry)))
                     /\ UNCHANGED <<memory_store, memory_timestamps>>
                ELSE /\ memory_store' =
                          MemoryStoreAfterAdd(req.session_id, entry)
                     /\ memory_timestamps' =
                          MemoryTimestampsAfterAdd(req.session_id)
                     /\ UNCHANGED redis_db
           ELSE UNCHANGED <<memory_store, memory_timestamps, redis_db>>
        /\ server' = [server EXCEPT !.req[c] =
                         [pc |-> "done", session_id |-> req.session_id,
                          query |-> req.query, model |-> req.model,
                          agent |-> req.agent, full_query |-> req.full_query,
                          result |-> run, full_response |-> full_response,
                          event |-> IF run.raised THEN "error" ELSE "done"]]
        /\ UNCHANGED <<tool_vars, inflight, manager, sessions, cli, use_redis,
                       max_history, ttl_seconds, now, ret, log, ttl_hit,
                       pre_absent, adds>>

ServerNext ==
    \/ \E manager_ok \in BOOLEAN, redis_ok \in BOOLEAN :
          ServerStart(manager_ok, redis_ok)
    \/ \E c \in Callers, sessionId \in RequestSessionIds, q \in Queries,
          m \in Models, read_fail \in BOOLEAN :
          ResearchBegin(c, sessionId, q, m, read_fail)
    \/ \E c \in Callers, run \in RunResults, write_fail \in BOOLEAN :
          ResearchFinish(c, run, write_fail)

ServerSpec == Init /\ [][ServerNext]_vars

\* the step in which the request of caller c gets the result of its run
Finishes(c) ==
    /\ server.pc = "up"
    /\ server.req[c].pc = "running"
    /\ server'.req[c].pc = "done"

\* C25: for every /api/research request whose agent run completes without
\* raising, exactly one entry is appended to the request's session history,
\* in the step after the history was read, and its query is the raw request
\* query; a request whose run raises appends nothing.
C25_OneEntryPerCompletedRun ==
    [][\A c \in Callers :
          Finishes(c) =>
             LET sid    == server.req[c].session_id
                 before == StoredHistory(sid)
                 after  == StoredHistory(sid)'
             IN  IF server'.req[c].result.raised
                 THEN after = before
                 ELSE /\ Len(after) = Len(before) + 1
                      /\ SubSeq(after, 1, Len(before)) = before
                      /\ after[Len(after)].query = server.req[c].query]_vars

\* a finished request whose run returned a result without a `messages`
\* attribute, the conversation manager being there, and nothing stored
C25_Witness ==
    /\ server.pc = "up"
    /\ server.conversation_manager
    /\ server.req["c1"].pc = "done"
    /\ server.req["c2"].pc = "idle"
    /\ ~server.req["c1"].result.raised
    /\ ~server.req["c1"].result.has_messages
    /\ server.req["c1"].event = "done"
    /\ StoredHistory(server.req["c1"].session_id) = <<>>

====
